---- MODULE Spec2Model ----
(***************************************************************************)
(* Verification model of the Sub-VLM-VLN repository:                       *)
(*   - NaVid_Agent (src/manual_control.py): extract_result, act, reset     *)
(*   - LLMPlanner (src/Sub_vlm/thinking.py, src/sub-vlm/thinking.py)       *)
(*   - LLMAssistedController (src/llm_manual_control.py,                   *)
(*     src/sub-vlm/llm_manual_control.py)                                  *)
(***************************************************************************)
EXTENDS Integers, Sequences, FiniteSets, TLC

VARIABLES
    \* ---- NaVid_Agent ----
    pending_action_list,   \* self.pending_action_list
    navigation,            \* text returned by the last predict_inference
    action,                \* action id returned by the last act call
    inference_count,       \* number of predict_inference calls so far
    agent_op,              \* which branch the last agent operation took
    issued_since_inference,  \* actions act returned since the last model call,
                           \* that call's own action included
    \* ---- LLMPlanner ----
    planner_op,            \* the planner operation that ran last
    api_response,          \* what the HTTP endpoint answered to its request
    api_result,            \* what _call_llm_api returned for it
    planner_result,        \* what the planner operation returned
    request_count,         \* number of requests.post calls so far
    \* ---- LLMAssistedController and its loop, src/llm_manual_control.py ----
    current_subtask,       \* controller.current_subtask
    subtask_count,         \* controller.subtask_count
    step_count,            \* controller.step_count
    current_subtask_file,  \* controller.current_subtask_file
    subtask_files,         \* the files under subtasks_dir, by name
    episode_over,          \* env.episode_over
    env_actions,           \* the actions passed to env.step, in order
    loop_pc,               \* position of run_llm_assisted_control
    loop_op,               \* what the last step of the loop did
    llm_response,          \* what _call_llm_api gave the planner last
    verify_return,         \* what the controller's verification returned last
    \* ---- LLMAssistedController, src/sub-vlm/llm_manual_control.py ----
    subtask_history,       \* controller.subtask_history
    step_files,            \* the step_NNNN_action.json files, by step
    \* ---- InstructionDecomposer, src/llm_api/instruction_decomposer.py ----
    api_available,         \* self.api_available
    dec_op,                \* the decomposer operation that ran last
    dec_instruction,       \* the instruction given to the last decompose call
    dec_reply,             \* what the endpoint answered to that call
    dec_result,            \* what decompose returned
    dec_count,             \* number of decompose calls so far
    \* ---- NaVid_Agent.run_episode and its simulator ----
    ep_pc,                 \* position of run_episode
    iter_step,             \* iter_step
    continuse_rotation_count,  \* continuse_rotation_count
    last_dtg,              \* last_dtg
    ep_action,             \* the action passed to the last env.step
    env_dtg,               \* the simulator's distance_to_goal
    ep_over,               \* the simulator's episode_over
    dtg_seen,              \* the distances read by the ticks so far, in order
    \* ---- evaluate_agent's loop around run_episode ----
    episode_count,         \* count
    current_episode,       \* env.current_episode, as its place in env.episodes
    env_resets,            \* env.reset calls since the loop iteration began
    env_steps,             \* env.step calls since run_episode was entered
    first_obs_episode,     \* episode of the observation given to the first act
    first_info_episode,    \* episode of the metrics given to the first act
    leftover,              \* queue length agent.reset found
    \* ---- run_manual_control and its ManualController ----
    manual_pc,             \* position of run_manual_control
    manual_step_count,     \* controller.step_count
    manual_env_actions,    \* the actions passed to env.step in this episode
    manual_episode_over,   \* env.episode_over
    manual_op,             \* what the last step of the loop did
    \* ---- evaluate_agent processes and the files under result_path ----
    evaluated_txt,         \* the lines of evaluated.txt
    summary_index,         \* the content of summary_index.txt
    run_indexes,           \* the run indexes written, in order
    eval_pc,               \* position of each process in evaluate_agent
    evaluated_ids,         \* evaluated_ids of each process
    selected,              \* dataset.episodes of each process after the filter
    eval_count,            \* count of each process
    eval_iterator,         \* place of env.current_episode in selected
    ran,                   \* the episodes run_episode stepped, per process
    all_results,           \* all_results of each process, as episode ids
    last_idx,              \* last_idx of each process
    run_idx,               \* run_idx of each process
    \* ---- the chat loop of src/VLM/qwen-chat.py ----
    conversation_history,  \* conversation_history
    model_input,           \* the history given to apply_chat_template last
    chat_pc,               \* position of the chat loop
    chat_op                \* what the last iteration of the loop did

agentVars == <<pending_action_list, navigation, action, inference_count,
               agent_op, issued_since_inference>>

plannerVars == <<planner_op, api_response, api_result, planner_result,
                 request_count>>

controlVars == <<current_subtask, subtask_count, step_count,
                 current_subtask_file, subtask_files, episode_over,
                 env_actions, loop_pc, loop_op, llm_response, verify_return,
                 subtask_history, step_files>>

decomposerVars == <<api_available, dec_op, dec_instruction, dec_reply,
                    dec_result, dec_count>>

episodeVars == <<ep_pc, iter_step, continuse_rotation_count, last_dtg,
                 ep_action, env_dtg, ep_over, dtg_seen, episode_count,
                 current_episode, env_resets, env_steps, first_obs_episode,
                 first_info_episode, leftover>>

manualVars == <<manual_pc, manual_step_count, manual_env_actions,
                manual_episode_over, manual_op>>

evalVars == <<evaluated_txt, summary_index, run_indexes, eval_pc,
              evaluated_ids, selected, eval_count, eval_iterator, ran,
              all_results, last_idx, run_idx>>

chatVars == <<conversation_history, model_input, chat_pc, chat_op>>

restVars == <<manualVars, evalVars, chatVars>>

vars == <<agentVars, plannerVars, controlVars, decomposerVars, episodeVars,
          restVars>>

(***************************************************************************)
(* Bounds                                                                  *)
(***************************************************************************)
MaxInferences == 2
MaxRequests == 2
MaxSteps == 2
MaxSubtasks == 3
MaxDecompositions == 2
EarlyStopRotation == 1
EarlyStopSteps == 3

(***************************************************************************)
(* Python None, where the code returns it next to integers.                *)
(***************************************************************************)
None == -1

(***************************************************************************)
(* Text is a sequence of one-character strings.                            *)
(***************************************************************************)
DigitChars == <<"0", "1", "2", "3", "4", "5", "6", "7", "8", "9">>

IsDigit(c) == \E d \in 1..10 : DigitChars[d] = c

DigitVal(c) == (CHOOSE d \in 1..10 : DigitChars[d] = c) - 1

\* Python  w in s  for strings
Contains(s, w) ==
    \E i \in 1..(Len(s) - Len(w) + 1) : SubSeq(s, i, i + Len(w) - 1) = w

\* Python  s[:-1]
DropLast(s) == IF Len(s) = 0 THEN s ELSE SubSeq(s, 1, Len(s) - 1)

\* int("d1d2...dn")
RECURSIVE DecimalValue(_)
DecimalValue(ds) ==
    IF Len(ds) = 0 THEN 0
    ELSE 10 * DecimalValue(SubSeq(ds, 1, Len(ds) - 1)) + DigitVal(ds[Len(ds)])

\* positions where the pattern  -?\d+  can start
MatchStarts(s) ==
    {i \in 1..Len(s) :
        \/ IsDigit(s[i])
        \/ s[i] = "-" /\ i < Len(s) /\ IsDigit(s[i + 1])}

\* re.search(r'-?\d+', s): leftmost match, digits taken greedily
ReSearchInt(s) ==
    IF MatchStarts(s) = {} THEN [found |-> FALSE, value |-> 0]
    ELSE LET i  == CHOOSE m \in MatchStarts(s) : \A n \in MatchStarts(s) : m <= n
             neg == s[i] = "-"
             ds == IF neg THEN i + 1 ELSE i
             de == CHOOSE j \in ds..Len(s) :
                      /\ \A k \in ds..j : IsDigit(s[k])
                      /\ (j = Len(s) \/ ~IsDigit(s[j + 1]))
             v  == DecimalValue(SubSeq(s, ds, de))
         IN [found |-> TRUE, value |-> IF neg THEN 0 - v ELSE v]

W_stop    == <<"s", "t", "o", "p">>
W_forward == <<"f", "o", "r", "w", "a", "r", "d">>
W_left    == <<"l", "e", "f", "t">>
W_right   == <<"r", "i", "g", "h", "t">>

\* extract_result with the forward test placed before the stop test
extract_result_ForwardFirst(output) ==
    LET m == ReSearchInt(output)
        withNumber(id) == IF m.found
                          THEN [action_index |-> id, num |-> m.value]
                          ELSE [action_index |-> None, num |-> None]
    IN IF Contains(output, W_forward) THEN withNumber(1)
       ELSE IF Contains(output, W_stop) THEN [action_index |-> 0, num |-> None]
       ELSE IF Contains(output, W_left) THEN withNumber(2)
       ELSE IF Contains(output, W_right) THEN withNumber(3)
       ELSE [action_index |-> None, num |-> None]

\* NaVid_Agent.extract_result
extract_result(output) ==
    LET m == ReSearchInt(output)
        withNumber(id) == IF m.found
                          THEN [action_index |-> id, num |-> m.value]
                          ELSE [action_index |-> None, num |-> None]
    IN IF Contains(output, W_stop) THEN [action_index |-> 0, num |-> None]
       ELSE IF Contains(output, W_forward) THEN withNumber(1)
       ELSE IF Contains(output, W_left) THEN withNumber(2)
       ELSE IF Contains(output, W_right) THEN withNumber(3)
       ELSE [action_index |-> None, num |-> None]

\* Python int(num / u) for a float num holding an integer: truncation to zero
IntDiv(num, u) == IF num >= 0 THEN num \div u ELSE 0 - ((0 - num) \div u)

Min(a, b) == IF a <= b THEN a ELSE b

Max(a, b) == IF a >= b THEN a ELSE b

\* [x] * n, the effect of  for _ in range(n): list.append(x)
RECURSIVE Repeat(_, _)
Repeat(x, n) == IF n <= 0 THEN <<>> ELSE <<x>> \o Repeat(x, n - 1)

ForwardUnit == 25
TurnUnit == 30
QueueCap == 3

\* the decomposition without the cap of three
Decompose_NoCap(res) ==
    IF res.action_index = 0 THEN <<0>>
    ELSE IF res.action_index = 1 THEN Repeat(1, IntDiv(res.num, ForwardUnit))
    ELSE IF res.action_index = 2 THEN Repeat(2, IntDiv(res.num, TurnUnit))
    ELSE IF res.action_index = 3 THEN Repeat(3, IntDiv(res.num, TurnUnit))
    ELSE <<>>

\* the decomposition branch of NaVid_Agent.act: the queue after the
\* if/elif chain, before the fallback
Decompose(res) ==
    IF res.action_index = 0 THEN <<0>>
    ELSE IF res.action_index = 1
         THEN Repeat(1, Min(QueueCap, IntDiv(res.num, ForwardUnit)))
    ELSE IF res.action_index = 2
         THEN Repeat(2, Min(QueueCap, IntDiv(res.num, TurnUnit)))
    ELSE IF res.action_index = 3
         THEN Repeat(3, Min(QueueCap, IntDiv(res.num, TurnUnit)))
    ELSE <<>>

\* the fallback adding its random action to every queue
Fallback_Always(res, queue, r) == Append(queue, r)

\* the fallback of NaVid_Agent.act; r is the value of random.randint(1, 3)
Fallback(res, queue, r) ==
    IF res.action_index = None \/ Len(queue) = 0 THEN Append(queue, r) ELSE queue

(***************************************************************************)
(* Model outputs offered to the agent                                      *)
(***************************************************************************)
T_move == <<"m", "o", "v", "e", " ">>
T_turn == <<"t", "u", "r", "n", " ">>
T_go   == <<"g", "o">>
T_cm   == <<"c", "m">>

T_degrees == <<" ", "d", "e", "g", "r", "e", "e", "s">>

VerbTexts ==
    { W_stop, T_move \o W_forward, T_turn \o W_left, T_turn \o W_right, T_go,
      W_stop \o <<" ">> \o W_forward, W_left \o <<" ">> \o W_right }

NumberTexts ==
    { <<>>, <<" ", "5">>, <<" ", "3", "0">>, <<" ", "5", "0">>,
      <<" ", "7", "5">>, <<" ", "1", "8", "0">>, <<" ", "-", "5", "0">> }

\* every verb with every number, ended by a full stop; the same without the
\* full stop for two numbers; and three outputs that carry a unit
ModelOutputs ==
    { v \o n \o <<".">> : v \in VerbTexts, n \in NumberTexts }
    \cup { v \o n : v \in VerbTexts, n \in { <<>>, <<" ", "7", "5">> } }
    \cup { T_move \o W_forward \o <<" ", "7", "5">> \o T_cm,
           T_turn \o W_left \o <<" ", "1", "8", "0">> \o T_degrees,
           T_turn \o W_right \o <<" ", "5", "0">> \o T_degrees }

(***************************************************************************)
(* NaVid_Agent                                                             *)
(***************************************************************************)
AgentInit ==
    /\ pending_action_list = <<>>
    /\ navigation = <<>>
    /\ action = None
    /\ inference_count = 0
    /\ agent_op = "init"
    /\ issued_since_inference = 0

\* act, cached branch: pop the head of the queue, no model call
PopPending ==
    /\ Len(pending_action_list) # 0
    /\ action' = Head(pending_action_list)
    /\ pending_action_list' = Tail(pending_action_list)
    /\ agent_op' = "pending"
    /\ issued_since_inference' = issued_since_inference + 1
    /\ UNCHANGED <<navigation, inference_count>>

\* an act call that finds the queue non-empty
ActPending ==
    /\ PopPending
    /\ UNCHANGED <<plannerVars, controlVars, decomposerVars, episodeVars,
                 restVars>>

\* the fallback drawing from randint(0, 3)
RandomChoices_WithStop(res, queue) ==
    IF res.action_index = None \/ Len(queue) = 0 THEN 0..3 ELSE {1}

\* the values random.randint(1, 3) can take where act reaches it
RandomChoices(res, queue) ==
    IF res.action_index = None \/ Len(queue) = 0 THEN 1..3 ELSE {1}

\* act calling the model without looking at the queue first
ActInference_NoQueueCheck ==
    /\ inference_count < MaxInferences
    /\ \E out \in ModelOutputs :
          LET res   == extract_result(DropLast(out))
              queue == pending_action_list \o Decompose(res)
          IN /\ navigation' = out
             /\ action' = Head(Fallback(res, queue, 1))
             /\ pending_action_list' = Tail(Fallback(res, queue, 1))
    /\ inference_count' = inference_count + 1
    /\ agent_op' = "inference"
    /\ issued_since_inference' = 1
    /\ UNCHANGED <<plannerVars, controlVars, decomposerVars, episodeVars,
                 restVars>>

\* act, inference branch: call the model, decompose, return the first
\* action; outputs are the texts the model may answer
Infer(outputs) ==
    /\ Len(pending_action_list) = 0
    /\ \E out \in outputs :
          LET res   == extract_result(DropLast(out))
              queue == pending_action_list \o Decompose(res)
          IN \E r \in RandomChoices(res, queue) :
                /\ navigation' = out
                /\ action' = Head(Fallback(res, queue, r))
                /\ pending_action_list' = Tail(Fallback(res, queue, r))
    /\ inference_count' = inference_count + 1
    /\ agent_op' = "inference"
    /\ issued_since_inference' = 1

\* an act call that finds the queue empty
ActInference ==
    /\ inference_count < MaxInferences
    /\ Infer(ModelOutputs)
    /\ UNCHANGED <<plannerVars, controlVars, decomposerVars, episodeVars,
                 restVars>>

act == ActPending \/ ActInference

\* a reset that leaves the queue as it is
ClearPending_KeepQueue ==
    /\ agent_op' = "reset"
    /\ UNCHANGED <<pending_action_list, navigation, action, inference_count,
                   issued_since_inference>>

\* the assignments of NaVid_Agent.reset
ClearPending ==
    /\ pending_action_list' = <<>>
    /\ agent_op' = "reset"
    /\ UNCHANGED <<navigation, action, inference_count,
                   issued_since_inference>>

\* NaVid_Agent.reset
reset ==
    /\ agent_op # "reset"
    /\ ClearPending
    /\ UNCHANGED <<plannerVars, controlVars, decomposerVars, episodeVars,
                 restVars>>

AgentNext == ActPending \/ ActInference \/ reset

(***************************************************************************)
(* Response text of the model endpoint.  A text is a sequence of lexemes:  *)
(* the fence ```, the word json, white space, prose, the JSON punctuation  *)
(* { } , and the JSON members  "k": "v"  (kv) and  "k":  (key, followed by *)
(* an object).                                                             *)
(***************************************************************************)
Tok(t, k, v) == [t |-> t, k |-> k, v |-> v]

LB    == Tok("lb", "", "")
RB    == Tok("rb", "", "")
COMMA == Tok("comma", "", "")
FENCE == Tok("fence", "", "")
JSONW == Tok("json", "", "")
WS    == Tok("ws", "", "")
PROSE == Tok("prose", "", "")
KV(k, v) == Tok("kv", k, v)
KEY(k)   == Tok("key", k, "")

EmptyObj == [k \in {} |-> ""]

Put(obj, k, v) == [x \in (DOMAIN obj) \cup {k} |-> IF x = k THEN v ELSE obj[x]]

ParseFail == [ok |-> FALSE, val |-> EmptyObj, next |-> 0]

\* json.loads on an object: recursive descent over the lexemes
RECURSIVE ParseObject(_, _), ParseMembers(_, _, _), AfterMember(_, _, _)
ParseObject(s, i) ==
    IF i > Len(s) \/ s[i].t # "lb" THEN ParseFail
    ELSE IF i + 1 <= Len(s) /\ s[i + 1].t = "rb"
         THEN [ok |-> TRUE, val |-> EmptyObj, next |-> i + 2]
    ELSE ParseMembers(s, i + 1, EmptyObj)

ParseMembers(s, i, acc) ==
    IF i > Len(s) THEN ParseFail
    ELSE IF s[i].t = "kv" THEN AfterMember(s, i + 1, Put(acc, s[i].k, s[i].v))
    ELSE IF s[i].t = "key"
         THEN LET r == ParseObject(s, i + 1)
              IN IF r.ok THEN AfterMember(s, r.next, Put(acc, s[i].k, r.val))
                 ELSE ParseFail
    ELSE ParseFail

AfterMember(s, i, acc) ==
    IF i > Len(s) THEN ParseFail
    ELSE IF s[i].t = "rb" THEN [ok |-> TRUE, val |-> acc, next |-> i + 1]
    ELSE IF s[i].t = "comma" THEN ParseMembers(s, i + 1, acc)
    ELSE ParseFail

NotWS(tok) == tok.t # "ws"

\* json.loads(text): white space between lexemes is insignificant, the whole
\* text must be one value
JsonLoads(s) ==
    LET t == SelectSeq(s, NotWS)
        r == ParseObject(t, 1)
    IN IF r.ok /\ r.next = Len(t) + 1
       THEN [ok |-> TRUE, val |-> r.val]
       ELSE [ok |-> FALSE, val |-> EmptyObj]

\* str.strip()
RECURSIVE LStrip(_)
LStrip(s) == IF Len(s) > 0 /\ s[1].t = "ws" THEN LStrip(Tail(s)) ELSE s

RECURSIVE RStrip(_)
RStrip(s) ==
    IF Len(s) > 0 /\ s[Len(s)].t = "ws" THEN RStrip(SubSeq(s, 1, Len(s) - 1))
    ELSE s

Strip(s) == RStrip(LStrip(s))

\* the fence removal that knows the ```json marker only
StripFences_JsonOnly(s) ==
    LET t0 == Strip(s)
        t1 == IF Len(t0) >= 2 /\ t0[1].t = "fence" /\ t0[2].t = "json"
              THEN SubSeq(t0, 3, Len(t0)) ELSE t0
        t3 == IF Len(t1) >= 1 /\ t1[Len(t1)].t = "fence"
              THEN SubSeq(t1, 1, Len(t1) - 1) ELSE t1
    IN Strip(t3)

\* the four lines that remove the markdown code block markers
StripFences(s) ==
    LET t0 == Strip(s)
        t1 == IF Len(t0) >= 2 /\ t0[1].t = "fence" /\ t0[2].t = "json"
              THEN SubSeq(t0, 3, Len(t0)) ELSE t0
        t2 == IF Len(t1) >= 1 /\ t1[1].t = "fence"
              THEN SubSeq(t1, 2, Len(t1)) ELSE t1
        t3 == IF Len(t2) >= 1 /\ t2[Len(t2)].t = "fence"
              THEN SubSeq(t2, 1, Len(t2) - 1) ELSE t2
    IN Strip(t3)

\* the brace counting loop: the length of the prefix that ends at the first
\* closing brace bringing brace_count to zero, -1 if there is none
RECURSIVE BraceScan(_, _, _)
BraceScan(s, i, brace_count) ==
    IF i > Len(s) THEN -1
    ELSE IF s[i].t = "lb" THEN BraceScan(s, i + 1, brace_count + 1)
    ELSE IF s[i].t = "rb"
         THEN IF brace_count - 1 = 0 THEN i
              ELSE BraceScan(s, i + 1, brace_count - 1)
    ELSE BraceScan(s, i + 1, brace_count)

JsonEnd(s) == BraceScan(s, 1, 0)

ApiNone(repair) == [ok |-> FALSE, json |-> EmptyObj, repair_ran |-> repair]

\* the repair pass handing back an empty record where it should fail
RepairPass_EmptyOnFailure(content_text) ==
    LET json_end == JsonEnd(content_text)
        second == JsonLoads(SubSeq(content_text, 1, Max(json_end, 0)))
    IN IF json_end > 0 /\ second.ok
       THEN [ok |-> TRUE, json |-> second.val, repair_ran |-> TRUE]
       ELSE [ok |-> TRUE, json |-> EmptyObj, repair_ran |-> TRUE]

\* the repair pass of _call_llm_api (the except json.JSONDecodeError block)
RepairPass(content_text) ==
    LET json_end == JsonEnd(content_text)
    IN IF json_end > 0
       THEN LET second == JsonLoads(SubSeq(content_text, 1, json_end))
            IN IF second.ok
               THEN [ok |-> TRUE, json |-> second.val, repair_ran |-> TRUE]
               ELSE ApiNone(TRUE)
       ELSE ApiNone(TRUE)

\* LLMPlanner._call_llm_api (src/Sub_vlm/thinking.py): None is ok = FALSE
CallLLMApi(resp) ==
    IF resp.transport # "ok" THEN ApiNone(FALSE)
    ELSE LET content_text == StripFences(resp.text)
             first == JsonLoads(content_text)
         IN IF first.ok
            THEN [ok |-> TRUE, json |-> first.val, repair_ran |-> FALSE]
            ELSE RepairPass(content_text)

(***************************************************************************)
(* LLMPlanner operations.  Each takes `response`, the value returned by    *)
(* _call_llm_api for the request the operation sent.                       *)
(***************************************************************************)
NoneSubTask == [none |-> TRUE]

SubTask(description, planning_hints, completion_criteria) ==
    [description |-> description,
     planning_hints |-> planning_hints,
     completion_criteria |-> completion_criteria]

\* truth value of a JSON scalar in  if is_completed:
Truthy(v) == v \notin {"false", "null", "", "0"}

NoAdvice == "None"

RequiredFields == {"subtask_instruction", "planning_hints", "completion_criteria"}

\* LLMPlanner.generate_initial_subtask, src/Sub_vlm/thinking.py
generate_initial_subtask(response) ==
    IF ~response.ok THEN NoneSubTask
    ELSE IF RequiredFields \ DOMAIN response.json # {} THEN NoneSubTask
    ELSE SubTask(response.json["subtask_instruction"],
                 response.json["planning_hints"],
                 response.json["completion_criteria"])

VerifyResult(is_completed, next_subtask, advice) ==
    [is_completed |-> is_completed, next_subtask |-> next_subtask,
     advice |-> advice]

\* dict.get(key, default)
Get(obj, k, default) == IF k \in DOMAIN obj THEN obj[k] ELSE default

\* LLMPlanner.verify_and_plan_next, src/Sub_vlm/thinking.py
verify_and_plan_next(response) ==
    IF ~response.ok
    THEN VerifyResult(FALSE, NoneSubTask, "API call failed, unable to verify")
    ELSE IF "is_completed" \notin DOMAIN response.json
    THEN VerifyResult(FALSE, NoneSubTask,
                      "Response format error: missing is_completed field")
    ELSE IF Truthy(response.json["is_completed"])
    THEN IF "next_subtask" \notin DOMAIN response.json
         THEN VerifyResult(FALSE, NoneSubTask,
                           "Response format error: completed but no next subtask")
         ELSE LET next_data == response.json["next_subtask"]
              IN IF RequiredFields \ DOMAIN next_data # {}
                 THEN VerifyResult(FALSE, NoneSubTask, "next_subtask format error")
                 ELSE VerifyResult(TRUE,
                                   SubTask(next_data["subtask_instruction"],
                                           next_data["planning_hints"],
                                           next_data["completion_criteria"]),
                                   NoAdvice)
    ELSE VerifyResult(FALSE, NoneSubTask,
                      Get(response.json, "continuation_advice", "Continue as planned"))

\* JSON numbers used for the confidence, as hundredths
NumberTable == ("0.6" :> 60) @@ ("0.85" :> 85) @@ ("0.9" :> 90) @@ ("1.5" :> 150)

IsNumber(v) == v \in DOMAIN NumberTable

\* float(v), in hundredths
Float(v) == NumberTable[v]

CompletionResult(is_completed, confidence, analysis) ==
    [is_completed |-> is_completed, confidence |-> confidence,
     analysis |-> analysis]

CompletionFields == {"task_completed", "confidence", "analysis"}

\* LLMPlanner.check_task_completion, src/Sub_vlm/thinking.py
check_task_completion(response) ==
    IF ~response.ok THEN CompletionResult(FALSE, 0, "API call failed")
    ELSE IF CompletionFields \ DOMAIN response.json # {}
    THEN CompletionResult(FALSE, 0, "Response format error")
    ELSE IF ~IsNumber(response.json["confidence"])
    THEN CompletionResult(FALSE, 0, "Field parsing error")
    ELSE LET confidence == Float(response.json["confidence"])
             clamped == IF 0 <= confidence /\ confidence <= 100 THEN confidence
                        ELSE Max(0, Min(100, confidence))
         IN CompletionResult(Truthy(response.json["task_completed"]), clamped,
                             response.json["analysis"])

(***************************************************************************)
(* The earlier revision of the planner, src/sub-vlm/thinking.py            *)
(***************************************************************************)
\* LLMPlanner._call_llm_api, src/sub-vlm/thinking.py: no repair pass
CallLLMApi_v1(resp) ==
    IF resp.transport # "ok" THEN ApiNone(FALSE)
    ELSE LET first == JsonLoads(StripFences(resp.text))
         IN IF first.ok
            THEN [ok |-> TRUE, json |-> first.val, repair_ran |-> FALSE]
            ELSE ApiNone(FALSE)

RequiredFields_v1 == {"subtask_description", "planning_hints", "completion_criteria"}

\* LLMPlanner.generate_initial_subtask, src/sub-vlm/thinking.py
generate_initial_subtask_v1(response) ==
    IF ~response.ok THEN NoneSubTask
    ELSE IF RequiredFields_v1 \ DOMAIN response.json # {} THEN NoneSubTask
    ELSE SubTask(response.json["subtask_description"],
                 response.json["planning_hints"],
                 response.json["completion_criteria"])

\* LLMPlanner.verify_and_plan_next, src/sub-vlm/thinking.py
verify_and_plan_next_v1(response) ==
    IF ~response.ok THEN VerifyResult(FALSE, NoneSubTask, "API call failed")
    ELSE IF {"is_completed", "completion_analysis"} \ DOMAIN response.json # {}
    THEN VerifyResult(FALSE, NoneSubTask, "Response format error")
    ELSE IF Truthy(response.json["is_completed"])
    THEN IF "next_subtask" \notin DOMAIN response.json
         THEN VerifyResult(FALSE, NoneSubTask, "Response format error")
         ELSE LET next_data == response.json["next_subtask"]
              IN IF RequiredFields_v1 \ DOMAIN next_data # {}
                 THEN VerifyResult(FALSE, NoneSubTask, "Response format error")
                 ELSE VerifyResult(TRUE,
                                   SubTask(next_data["subtask_description"],
                                           next_data["planning_hints"],
                                           next_data["completion_criteria"]),
                                   NoAdvice)
    ELSE VerifyResult(FALSE, NoneSubTask,
                      Get(response.json, "continuation_advice", "Continue as planned"))

(***************************************************************************)
(* Responses offered to the planner                                        *)
(***************************************************************************)
FourKeys == {"subtask_destination", "subtask_instruction", "planning_hints",
             "completion_criteria"}

\* the planning members whose key is in S, with destination d
PlanMembers(S, d) ==
    LET all == << KV("subtask_destination", d),
                  KV("subtask_instruction", "turn toward doorway"),
                  KV("planning_hints", "follow the wall"),
                  KV("completion_criteria", "door frame fills view"),
                  KV("subtask_description", "turn toward doorway") >>
        InS(tok) == tok.k \in S
    IN SelectSeq(all, InS)

\* members separated by commas
RECURSIVE Join(_)
Join(ms) ==
    IF Len(ms) = 0 THEN <<>>
    ELSE IF Len(ms) = 1 THEN ms[1]
    ELSE ms[1] \o <<COMMA>> \o Join(Tail(ms))

Each(toks) == [i \in 1..Len(toks) |-> <<toks[i]>>]

Obj(ms) == <<LB>> \o Join(ms) \o <<RB>>

PlanObj(S, d) == Obj(Each(PlanMembers(S, d)))

FullPlan == PlanObj(FourKeys, "kitchen doorway")

InitialBodies ==
    { PlanObj(S, "kitchen doorway") : S \in SUBSET FourKeys }
    \cup { PlanObj(RequiredFields_v1, "kitchen doorway"),
           PlanObj(FourKeys \cup {"subtask_description"}, "kitchen doorway") }

NextSubtaskObjs ==
    { PlanObj(FourKeys \cup {"subtask_description"}, "kitchen interior"),
      PlanObj(FourKeys, "kitchen interior"),
      PlanObj(RequiredFields, "kitchen interior"),
      PlanObj(RequiredFields_v1, "kitchen interior"),
      PlanObj(FourKeys \ {"planning_hints"}, "kitchen interior"),
      PlanObj({}, "kitchen interior") }

Analysis == <<KV("completion_analysis", "door frame close")>>

VerificationBodies ==
    { Obj(<< <<KV("is_completed", "true")>>, Analysis,
             <<KEY("next_subtask")>> \o n >>) : n \in NextSubtaskObjs }
    \cup { Obj(<< <<KV("is_completed", "true")>>, Analysis >>),
           Obj(<< <<KV("is_completed", "true")>>,
                  <<KEY("next_subtask")>> \o FullPlan >>),
           Obj(<< <<KV("is_completed", "false")>>, Analysis,
                  <<KV("continuation_advice", "go around the table")>> >>),
           Obj(<< <<KV("is_completed", "false")>> >>),
           Obj(<< Analysis >>) }
    \cup { Obj(<< <<KV("is_completed", c)>> >> \o Each(PlanMembers(S, d))) :
             c \in {"true", "false"},
             S \in {FourKeys, FourKeys \ {"subtask_destination"}},
             d \in {"kitchen doorway", "kitchen interior"} }

CompletionBodies ==
    { Obj(<< <<KV("task_completed", c)>>, <<KV("confidence", n)>>,
             <<KV("analysis", "near the refrigerator")>> >>) :
        c \in {"true", "false"}, n \in {"0.6", "0.85", "0.9", "1.5", "high"} }
    \cup { Obj(<< <<KV("task_completed", "true")>>,
                  <<KV("confidence", "0.9")>> >>),
           Obj(<< <<KV("task_completed", "true")>>,
                  <<KV("analysis", "near the refrigerator")>> >>),
           Obj(<< <<KV("confidence", "0.9")>>,
                  <<KV("analysis", "near the refrigerator")>> >>) }

\* the ways a model wraps or damages its answer
Wrappings(body) ==
    { <<FENCE, JSONW, WS>> \o body \o <<WS, FENCE>>,
      <<FENCE, WS>> \o body \o <<WS, FENCE>>,
      <<WS>> \o body \o <<WS>>,
      <<PROSE, WS>> \o body,
      body \o <<WS, PROSE>>,
      body \o <<WS>> \o body,
      SubSeq(body, 1, Len(body) - 1) }

WrappedBodies ==
    { FullPlan,
      Obj(<< <<KV("is_completed", "true")>>, Analysis,
             <<KEY("next_subtask")>> \o FullPlan >>),
      Obj(<< <<KV("task_completed", "true")>>, <<KV("confidence", "0.6")>>,
             <<KV("analysis", "near the refrigerator")>> >>) }

ResponseTexts ==
    InitialBodies \cup VerificationBodies \cup CompletionBodies
    \cup UNION { Wrappings(b) : b \in WrappedBodies }
    \cup { <<PROSE>>, <<>>, <<RB, LB>> }

Responses ==
    { [transport |-> "ok", text |-> t] : t \in ResponseTexts }
    \cup { [transport |-> "error", text |-> <<>>] }

(***************************************************************************)
(* LLMPlanner as a state machine: one action per operation                 *)
(***************************************************************************)
PlannerInit ==
    /\ planner_op = "init"
    /\ api_response = [transport |-> "none", text |-> <<>>]
    /\ api_result = ApiNone(FALSE)
    /\ planner_result = NoneSubTask
    /\ request_count = 0

\* the request sent a second time when the first one failed
Request_RetryOnFailure(resp, result) ==
    /\ request_count < MaxRequests
    /\ request_count' = request_count + (IF result.ok THEN 1 ELSE 2)
    /\ api_response' = resp
    /\ api_result' = result

\* the request every operation sends through _call_llm_api
Request(resp, result) ==
    /\ request_count < MaxRequests
    /\ request_count' = request_count + 1
    /\ api_response' = resp
    /\ api_result' = result

GenerateInitialSubtask ==
    \E resp \in Responses :
        /\ Request(resp, CallLLMApi(resp))
        /\ planner_op' = "generate_initial_subtask"
        /\ planner_result' = generate_initial_subtask(CallLLMApi(resp))
        /\ UNCHANGED <<agentVars, controlVars, decomposerVars, episodeVars,
                 restVars>>

VerifyAndPlanNext ==
    \E resp \in Responses :
        /\ Request(resp, CallLLMApi(resp))
        /\ planner_op' = "verify_and_plan_next"
        /\ planner_result' = verify_and_plan_next(CallLLMApi(resp))
        /\ UNCHANGED <<agentVars, controlVars, decomposerVars, episodeVars,
                 restVars>>

CheckTaskCompletion ==
    \E resp \in Responses :
        /\ Request(resp, CallLLMApi(resp))
        /\ planner_op' = "check_task_completion"
        /\ planner_result' = check_task_completion(CallLLMApi(resp))
        /\ UNCHANGED <<agentVars, controlVars, decomposerVars, episodeVars,
                 restVars>>

GenerateInitialSubtask_v1 ==
    \E resp \in Responses :
        /\ Request(resp, CallLLMApi_v1(resp))
        /\ planner_op' = "generate_initial_subtask_v1"
        /\ planner_result' = generate_initial_subtask_v1(CallLLMApi_v1(resp))
        /\ UNCHANGED <<agentVars, controlVars, decomposerVars, episodeVars,
                 restVars>>

VerifyAndPlanNext_v1 ==
    \E resp \in Responses :
        /\ Request(resp, CallLLMApi_v1(resp))
        /\ planner_op' = "verify_and_plan_next_v1"
        /\ planner_result' = verify_and_plan_next_v1(CallLLMApi_v1(resp))
        /\ UNCHANGED <<agentVars, controlVars, decomposerVars, episodeVars,
                 restVars>>

PlannerNext ==
    \/ GenerateInitialSubtask
    \/ VerifyAndPlanNext
    \/ CheckTaskCompletion
    \/ GenerateInitialSubtask_v1
    \/ VerifyAndPlanNext_v1

(***************************************************************************)
(* The planner revision that src/llm_manual_control.py calls               *)
(* (LLMPlanner(config, action_space), generate_initial_subtask returning   *)
(* the response record, verify_and_replan) is not among the sources; it is *)
(* modelled from sections 4.1 and 4.3 of the specification.                *)
(***************************************************************************)
NoneDict == [none |-> TRUE]

\* generateInitial: the validated record, or Failure
planner_generate_initial(response) ==
    IF ~response.ok THEN NoneDict
    ELSE IF FourKeys \ DOMAIN response.json # {} THEN NoneDict
    ELSE response.json

ReplanResult(response, is_completed) ==
    [response |-> response, is_completed |-> is_completed]

\* verifyAndReplan: (resulting sub-task, isCompleted), or Failure
planner_verify_and_replan(response, subtask) ==
    IF ~response.ok THEN ReplanResult(NoneDict, FALSE)
    ELSE IF "is_completed" \notin DOMAIN response.json
    THEN ReplanResult(NoneDict, FALSE)
    ELSE IF Truthy(response.json["is_completed"])
    THEN IF "next_subtask" \notin DOMAIN response.json
         THEN ReplanResult(NoneDict, FALSE)
         ELSE IF FourKeys \ DOMAIN response.json["next_subtask"] # {}
         THEN ReplanResult(NoneDict, FALSE)
         ELSE ReplanResult(response.json["next_subtask"], TRUE)
    ELSE IF FourKeys \ DOMAIN response.json # {} THEN ReplanResult(NoneDict, FALSE)
    ELSE IF response.json["subtask_destination"] # subtask["subtask_destination"]
    THEN ReplanResult(NoneDict, FALSE)
    ELSE ReplanResult(response.json, FALSE)

(***************************************************************************)
(* LLMAssistedController and run_llm_assisted_control,                     *)
(* src/llm_manual_control.py                                               *)
(***************************************************************************)
\* Python  not response  for a dict or None
Falsy(d) == d = NoneDict \/ DOMAIN d = {}

NoFile == "None"

\* LLMAssistedController._create_subtask_file: the files after the call
CreateSubtaskFile(files, subtask_name, count, step, response) ==
    Put(files, subtask_name,
        [subtask_id |-> count, generated_at_step |-> step,
         llm_response |-> response, actions |-> <<>>])

\* LLMAssistedController.record_action: the files after the call
record_action(files, file, step, action_id) ==
    IF file = NoFile THEN files
    ELSE Put(files, file,
             [files[file] EXCEPT !.actions =
                 Append(@, [step |-> step, action_id |-> action_id])])

\* every replanned record under one name
SubtaskName_Same(count) == "subtask_2"

\* f"subtask_{self.subtask_count}"
SubtaskName(count) ==
    IF count = 1 THEN "subtask_1" ELSE IF count = 2 THEN "subtask_2"
    ELSE IF count = 3 THEN "subtask_3" ELSE IF count = 4 THEN "subtask_4"
    ELSE "subtask_5"

\* the responses offered to the controller's planner calls
ControlResponses ==
    { [transport |-> "ok", text |-> t] :
        t \in { FullPlan,
                PlanObj(RequiredFields, "kitchen doorway"),
                SubSeq(FullPlan, 1, Len(FullPlan) - 1),
                Obj(<< <<KV("is_completed", "true")>>,
                       <<KEY("next_subtask")>>
                          \o PlanObj(FourKeys, "kitchen interior") >>),
                Obj(<< <<KV("is_completed", "true")>>, Analysis >>),
                Obj(<< <<KV("is_completed", "false")>> >>
                    \o Each(PlanMembers(FourKeys, "kitchen doorway"))),
                Obj(<< <<KV("is_completed", "false")>> >>
                    \o Each(PlanMembers(FourKeys, "kitchen interior"))),
                Obj(<< <<KV("is_completed", "false")>> >>
                    \o Each(PlanMembers(FourKeys \ {"subtask_destination"},
                                        "kitchen doorway"))) } }
    \cup { [transport |-> "error", text |-> <<>>] }

\* the state after controller.reset, before the first planner call
ControlInit ==
    /\ current_subtask = NoneDict
    /\ subtask_count = 0
    /\ step_count = 0
    /\ current_subtask_file = NoFile
    /\ subtask_files = EmptyObj
    /\ episode_over = FALSE
    /\ env_actions = <<>>
    /\ loop_pc = "start"
    /\ loop_op = "reset"
    /\ llm_response = ApiNone(FALSE)
    /\ verify_return = ReplanResult(NoneDict, FALSE)
    /\ subtask_history = <<>>
    /\ step_files = EmptyObj

\* controller.generate_initial_subtask and the check that follows it
StartEpisode ==
    /\ loop_pc = "start"
    /\ \E resp \in ControlResponses :
          LET response == planner_generate_initial(CallLLMApi(resp))
          IN /\ llm_response' = CallLLMApi(resp)
             /\ IF Falsy(response)
                THEN /\ loop_pc' = "returned"
                     /\ UNCHANGED <<current_subtask, subtask_count,
                                    current_subtask_file, subtask_files>>
                ELSE /\ loop_pc' = "loop"
                     /\ current_subtask' = response
                     /\ subtask_count' = subtask_count + 1
                     /\ subtask_files' =
                           CreateSubtaskFile(subtask_files, "initial_subtask",
                                             subtask_count + 1, step_count, response)
                     /\ current_subtask_file' = "initial_subtask"
    /\ loop_op' = "generate_initial_subtask"
    /\ UNCHANGED <<step_count, episode_over, env_actions, verify_return>>
    /\ UNCHANGED <<subtask_history, step_files>>
    /\ UNCHANGED <<agentVars, plannerVars, decomposerVars, episodeVars,
                 restVars>>

\* verify_and_replan installing the planner's answer without the
\* "if not response" check
verify_and_replan_NoFailureCheck ==
    /\ loop_pc = "loop" /\ ~episode_over
    /\ subtask_count < MaxSubtasks
    /\ \E resp \in ControlResponses :
          LET count  == subtask_count + 1
              result == planner_verify_and_replan(CallLLMApi(resp), current_subtask)
          IN /\ llm_response' = CallLLMApi(resp)
             /\ subtask_count' = count
             /\ current_subtask' = result.response
             /\ subtask_files' =
                   CreateSubtaskFile(subtask_files, SubtaskName(count),
                                     count, step_count, result.response)
             /\ current_subtask_file' = SubtaskName(count)
             /\ verify_return' = ReplanResult(result.response, result.is_completed)
    /\ loop_op' = "verify_and_replan"
    /\ UNCHANGED <<step_count, episode_over, env_actions, loop_pc>>
    /\ UNCHANGED <<subtask_history, step_files>>
    /\ UNCHANGED <<agentVars, plannerVars, decomposerVars, episodeVars,
                 restVars>>

\* input "c": controller.verify_and_replan
verify_and_replan ==
    /\ loop_pc = "loop" /\ ~episode_over
    /\ subtask_count < MaxSubtasks
    /\ \E resp \in ControlResponses :
          LET count  == subtask_count + 1
              result == planner_verify_and_replan(CallLLMApi(resp), current_subtask)
          IN /\ llm_response' = CallLLMApi(resp)
             /\ IF Falsy(result.response)
                THEN /\ subtask_count' = count - 1
                     /\ verify_return' = ReplanResult(NoneDict, FALSE)
                     /\ UNCHANGED <<current_subtask, current_subtask_file,
                                    subtask_files>>
                ELSE /\ subtask_count' = count
                     /\ current_subtask' = result.response
                     /\ subtask_files' =
                           CreateSubtaskFile(subtask_files, SubtaskName(count),
                                             count, step_count, result.response)
                     /\ current_subtask_file' = SubtaskName(count)
                     /\ verify_return' =
                           ReplanResult(result.response, result.is_completed)
    /\ loop_op' = "verify_and_replan"
    /\ UNCHANGED <<step_count, episode_over, env_actions, loop_pc>>
    /\ UNCHANGED <<subtask_history, step_files>>
    /\ UNCHANGED <<agentVars, plannerVars, decomposerVars, episodeVars,
                 restVars>>

\* input "0".."3": record the action, step the simulator
UserAction ==
    /\ loop_pc = "loop" /\ ~episode_over
    /\ step_count < MaxSteps
    /\ \E action_id \in 0..3, over \in BOOLEAN :
          /\ action_id = 0 => over
          /\ subtask_files' = record_action(subtask_files, current_subtask_file,
                                            step_count, action_id)
          /\ env_actions' = Append(env_actions, action_id)
          /\ episode_over' = over
          /\ loop_pc' = IF action_id = 0 THEN "done" ELSE "loop"
    /\ step_count' = step_count + 1
    /\ loop_op' = "action"
    /\ UNCHANGED <<current_subtask, subtask_count, current_subtask_file,
                   llm_response, verify_return>>
    /\ UNCHANGED <<subtask_history, step_files>>
    /\ UNCHANGED <<agentVars, plannerVars, decomposerVars, episodeVars,
                 restVars>>

\* input "q": STOP is sent and the loop is left
UserQuit ==
    /\ loop_pc = "loop" /\ ~episode_over
    /\ step_count < MaxSteps
    /\ env_actions' = Append(env_actions, 0)
    /\ episode_over' = TRUE
    /\ step_count' = step_count + 1
    /\ loop_pc' = "done"
    /\ loop_op' = "quit"
    /\ UNCHANGED <<current_subtask, subtask_count, current_subtask_file,
                   subtask_files, llm_response, verify_return>>
    /\ UNCHANGED <<subtask_history, step_files>>
    /\ UNCHANGED <<agentVars, plannerVars, decomposerVars, episodeVars,
                 restVars>>

\* input "exit": the function returns
UserExit ==
    /\ loop_pc = "loop" /\ ~episode_over
    /\ loop_pc' = "returned"
    /\ loop_op' = "exit"
    /\ UNCHANGED <<current_subtask, subtask_count, step_count,
                   current_subtask_file, subtask_files, episode_over,
                   env_actions, llm_response, verify_return>>
    /\ UNCHANGED <<subtask_history, step_files>>
    /\ UNCHANGED <<agentVars, plannerVars, decomposerVars, episodeVars,
                 restVars>>

\* any other input: "Invalid input", next iteration
UserInvalid ==
    /\ loop_pc = "loop" /\ ~episode_over
    /\ loop_op' = "invalid"
    /\ UNCHANGED <<current_subtask, subtask_count, step_count,
                   current_subtask_file, subtask_files, episode_over,
                   env_actions, loop_pc, llm_response, verify_return>>
    /\ UNCHANGED <<subtask_history, step_files>>
    /\ UNCHANGED <<agentVars, plannerVars, decomposerVars, episodeVars,
                 restVars>>

\* while not env.episode_over: the loop ends when the simulator says so
LoopEnd ==
    /\ loop_pc = "loop" /\ episode_over
    /\ loop_pc' = "done"
    /\ loop_op' = "episode_over"
    /\ UNCHANGED <<current_subtask, subtask_count, step_count,
                   current_subtask_file, subtask_files, episode_over,
                   env_actions, llm_response, verify_return>>
    /\ UNCHANGED <<subtask_history, step_files>>
    /\ UNCHANGED <<agentVars, plannerVars, decomposerVars, episodeVars,
                 restVars>>

(***************************************************************************)
(* LLMAssistedController and run_llm_assisted_control,                     *)
(* src/sub-vlm/llm_manual_control.py; its planner is src/sub-vlm/thinking  *)
(***************************************************************************)
\* a planning record in the format of the earlier prompts
PlanObj_v1(description) ==
    Obj(<< <<KV("subtask_description", description)>>,
           <<KV("planning_hints", "follow the wall")>>,
           <<KV("completion_criteria", "door frame fills view")>> >>)

\* the responses offered to the earlier controller's planner calls
ControlResponses_v1 ==
    { [transport |-> "ok", text |-> t] :
        t \in { PlanObj_v1("walk to the door"),
                FullPlan,
                SubSeq(FullPlan, 1, Len(FullPlan) - 1),
                Obj(<< <<KV("is_completed", "true")>>, Analysis,
                       <<KEY("next_subtask")>> \o PlanObj_v1("enter the kitchen") >>),
                Obj(<< <<KV("is_completed", "true")>>, Analysis,
                       <<KEY("next_subtask")>> \o FullPlan >>),
                Obj(<< <<KV("is_completed", "true")>>, Analysis >>),
                Obj(<< <<KV("is_completed", "true")>>,
                       <<KEY("next_subtask")>> \o PlanObj_v1("enter the kitchen") >>),
                Obj(<< <<KV("is_completed", "false")>>, Analysis,
                       <<KV("continuation_advice", "go around the table")>> >>) } }
    \cup { [transport |-> "error", text |-> <<>>] }

\* the sub-task substituted when the planner returns None
DefaultSubTask ==
    SubTask("explore forward and look for the first landmark",
            "keep straight and watch the surroundings",
            "the first object or place of the instruction is visible")

SavedSubtaskName(count) ==
    IF count = 1 THEN "subtask_1_initial"
    ELSE IF count = 2 THEN "subtask_2_subtask2"
    ELSE IF count = 3 THEN "subtask_3_subtask3"
    ELSE IF count = 4 THEN "subtask_4_subtask4"
    ELSE "subtask_5_subtask5"

\* LLMAssistedController._save_subtask: the files after the call
SaveSubtask(files, count, step, subtask) ==
    Put(files, SavedSubtaskName(count),
        [subtask_id |-> count, step |-> step, subtask |-> subtask])

\* generate_initial_subtask keeping the planner's None
StartEpisode_v1_NoDefault ==
    /\ loop_pc = "start"
    /\ \E resp \in ControlResponses_v1 :
          LET subtask == generate_initial_subtask_v1(CallLLMApi_v1(resp))
          IN /\ llm_response' = CallLLMApi_v1(resp)
             /\ current_subtask' = subtask
             /\ subtask_count' = subtask_count + 1
             /\ subtask_files' = SaveSubtask(subtask_files, subtask_count + 1,
                                             step_count, subtask)
    /\ loop_pc' = "loop_v1"
    /\ loop_op' = "generate_initial_subtask_v1"
    /\ UNCHANGED <<step_count, current_subtask_file, episode_over, env_actions,
                   verify_return, subtask_history, step_files>>
    /\ UNCHANGED <<agentVars, plannerVars, decomposerVars, episodeVars,
                 restVars>>

\* controller.generate_initial_subtask, then the loop is entered
StartEpisode_v1 ==
    /\ loop_pc = "start"
    /\ \E resp \in ControlResponses_v1 :
          LET planned == generate_initial_subtask_v1(CallLLMApi_v1(resp))
              subtask == IF planned = NoneSubTask THEN DefaultSubTask ELSE planned
          IN /\ llm_response' = CallLLMApi_v1(resp)
             /\ current_subtask' = subtask
             /\ subtask_count' = subtask_count + 1
             /\ subtask_files' = SaveSubtask(subtask_files, subtask_count + 1,
                                             step_count, subtask)
    /\ loop_pc' = "loop_v1"
    /\ loop_op' = "generate_initial_subtask_v1"
    /\ UNCHANGED <<step_count, current_subtask_file, episode_over, env_actions,
                   verify_return, subtask_history, step_files>>
    /\ UNCHANGED <<agentVars, plannerVars, decomposerVars, episodeVars,
                 restVars>>

\* verify_subtask_completion counting the sub-task before the planner answers
verify_subtask_completion_CountFirst ==
    /\ loop_pc = "loop_v1" /\ ~episode_over
    /\ subtask_count < MaxSubtasks
    /\ \E resp \in ControlResponses_v1 :
          LET result == verify_and_plan_next_v1(CallLLMApi_v1(resp))
          IN /\ llm_response' = CallLLMApi_v1(resp)
             /\ verify_return' =
                   ReplanResult(result.next_subtask, result.is_completed)
             /\ subtask_count' = subtask_count + 1
             /\ IF result.is_completed /\ result.next_subtask # NoneSubTask
                THEN /\ subtask_history' =
                           Append(subtask_history,
                                  [subtask_id |-> subtask_count,
                                   subtask |-> current_subtask,
                                   completed |-> TRUE,
                                   completion_step |-> step_count])
                     /\ current_subtask' = result.next_subtask
                     /\ subtask_files' =
                           SaveSubtask(subtask_files, subtask_count + 1,
                                       step_count, result.next_subtask)
                ELSE UNCHANGED <<subtask_history, current_subtask, subtask_files>>
    /\ loop_op' = "verify_subtask_completion"
    /\ UNCHANGED <<step_count, current_subtask_file, episode_over, env_actions,
                   loop_pc, step_files>>
    /\ UNCHANGED <<agentVars, plannerVars, decomposerVars, episodeVars,
                 restVars>>

\* input "c": controller.verify_subtask_completion
verify_subtask_completion ==
    /\ loop_pc = "loop_v1" /\ ~episode_over
    /\ subtask_count < MaxSubtasks
    /\ \E resp \in ControlResponses_v1 :
          LET result == verify_and_plan_next_v1(CallLLMApi_v1(resp))
          IN /\ llm_response' = CallLLMApi_v1(resp)
             /\ verify_return' =
                   ReplanResult(result.next_subtask, result.is_completed)
             /\ IF result.is_completed /\ result.next_subtask # NoneSubTask
                THEN /\ subtask_history' =
                           Append(subtask_history,
                                  [subtask_id |-> subtask_count,
                                   subtask |-> current_subtask,
                                   completed |-> TRUE,
                                   completion_step |-> step_count])
                     /\ current_subtask' = result.next_subtask
                     /\ subtask_count' = subtask_count + 1
                     /\ subtask_files' =
                           SaveSubtask(subtask_files, subtask_count + 1,
                                       step_count, result.next_subtask)
                ELSE UNCHANGED <<subtask_history, current_subtask,
                                 subtask_count, subtask_files>>
    /\ loop_op' = "verify_subtask_completion"
    /\ UNCHANGED <<step_count, current_subtask_file, episode_over, env_actions,
                   loop_pc, step_files>>
    /\ UNCHANGED <<agentVars, plannerVars, decomposerVars, episodeVars,
                 restVars>>

\* input "0".."3": save_step_action, then step the simulator
UserAction_v1 ==
    /\ loop_pc = "loop_v1" /\ ~episode_over
    /\ step_count < MaxSteps
    /\ \E action_id \in 0..3, over \in BOOLEAN :
          /\ action_id = 0 => over
          /\ step_files' = Put(step_files, step_count,
                               [step |-> step_count, subtask_id |-> subtask_count,
                                action_id |-> action_id])
          /\ env_actions' = Append(env_actions, action_id)
          /\ episode_over' = over
          /\ loop_pc' = IF action_id = 0 THEN "done" ELSE "loop_v1"
    /\ step_count' = step_count + 1
    /\ loop_op' = "action"
    /\ UNCHANGED <<current_subtask, subtask_count, current_subtask_file,
                   subtask_files, llm_response, verify_return, subtask_history>>
    /\ UNCHANGED <<agentVars, plannerVars, decomposerVars, episodeVars,
                 restVars>>

\* input "q": STOP is sent and the loop is left
UserQuit_v1 ==
    /\ loop_pc = "loop_v1" /\ ~episode_over
    /\ step_count < MaxSteps
    /\ env_actions' = Append(env_actions, 0)
    /\ episode_over' = TRUE
    /\ step_count' = step_count + 1
    /\ loop_pc' = "done"
    /\ loop_op' = "quit"
    /\ UNCHANGED <<current_subtask, subtask_count, current_subtask_file,
                   subtask_files, llm_response, verify_return, subtask_history,
                   step_files>>
    /\ UNCHANGED <<agentVars, plannerVars, decomposerVars, episodeVars,
                 restVars>>

\* input "exit": the function returns
UserExit_v1 ==
    /\ loop_pc = "loop_v1" /\ ~episode_over
    /\ loop_pc' = "returned"
    /\ loop_op' = "exit"
    /\ UNCHANGED <<current_subtask, subtask_count, step_count,
                   current_subtask_file, subtask_files, episode_over,
                   env_actions, llm_response, verify_return, subtask_history,
                   step_files>>
    /\ UNCHANGED <<agentVars, plannerVars, decomposerVars, episodeVars,
                 restVars>>

\* any other input: next iteration
UserInvalid_v1 ==
    /\ loop_pc = "loop_v1" /\ ~episode_over
    /\ loop_op' = "invalid"
    /\ UNCHANGED <<current_subtask, subtask_count, step_count,
                   current_subtask_file, subtask_files, episode_over,
                   env_actions, loop_pc, llm_response, verify_return,
                   subtask_history, step_files>>
    /\ UNCHANGED <<agentVars, plannerVars, decomposerVars, episodeVars,
                 restVars>>

\* while not env.episode_over
LoopEnd_v1 ==
    /\ loop_pc = "loop_v1" /\ episode_over
    /\ loop_pc' = "done"
    /\ loop_op' = "episode_over"
    /\ UNCHANGED <<current_subtask, subtask_count, step_count,
                   current_subtask_file, subtask_files, episode_over,
                   env_actions, llm_response, verify_return, subtask_history,
                   step_files>>
    /\ UNCHANGED <<agentVars, plannerVars, decomposerVars, episodeVars,
                 restVars>>

ControlNext ==
    \/ StartEpisode
    \/ verify_and_replan
    \/ UserAction
    \/ UserQuit
    \/ UserExit
    \/ UserInvalid
    \/ LoopEnd
    \/ StartEpisode_v1
    \/ verify_subtask_completion
    \/ UserAction_v1
    \/ UserQuit_v1
    \/ UserExit_v1
    \/ UserInvalid_v1
    \/ LoopEnd_v1

(***************************************************************************)
(* InstructionDecomposer, src/llm_api/instruction_decomposer.py.           *)
(* A Python value is a record [type, val]; the reply text is a sequence of *)
(* lexemes as above, with [ ] and the scalars added.                       *)
(***************************************************************************)
LSQ == Tok("lsq", "", "")
RSQ == Tok("rsq", "", "")
STR(v) == Tok("str", "", v)
NUM(v) == Tok("num", "", v)
NULL == Tok("null", "", "")

Py(type, val) == [type |-> type, val |-> val]

PyNone == Py("NoneType", "None")

ParsedValue(val, next) == [ok |-> TRUE, val |-> val, next |-> next]

\* json.loads on any JSON value: object -> dict, array -> list,
\* string -> str, number -> int, null -> None
RECURSIVE ParseValue(_, _), ParseItems(_, _, _), ParseFields(_, _, _)
ParseValue(s, i) ==
    IF i > Len(s) THEN ParseFail
    ELSE IF s[i].t = "str" THEN ParsedValue(Py("str", s[i].v), i + 1)
    ELSE IF s[i].t = "num" THEN ParsedValue(Py("int", s[i].v), i + 1)
    ELSE IF s[i].t = "null" THEN ParsedValue(PyNone, i + 1)
    ELSE IF s[i].t = "lsq"
         THEN IF i + 1 <= Len(s) /\ s[i + 1].t = "rsq"
              THEN ParsedValue(Py("list", <<>>), i + 2)
              ELSE ParseItems(s, i + 1, <<>>)
    ELSE IF s[i].t = "lb"
         THEN IF i + 1 <= Len(s) /\ s[i + 1].t = "rb"
              THEN ParsedValue(Py("dict", EmptyObj), i + 2)
              ELSE ParseFields(s, i + 1, EmptyObj)
    ELSE ParseFail

ParseItems(s, i, acc) ==
    LET r == ParseValue(s, i)
    IN IF ~r.ok \/ r.next > Len(s) THEN ParseFail
       ELSE IF s[r.next].t = "rsq"
            THEN ParsedValue(Py("list", Append(acc, r.val)), r.next + 1)
       ELSE IF s[r.next].t = "comma"
            THEN ParseItems(s, r.next + 1, Append(acc, r.val))
       ELSE ParseFail

ParseFields(s, i, acc) ==
    LET After(obj, j) ==
            IF j > Len(s) THEN ParseFail
            ELSE IF s[j].t = "rb" THEN ParsedValue(Py("dict", obj), j + 1)
            ELSE IF s[j].t = "comma" THEN ParseFields(s, j + 1, obj)
            ELSE ParseFail
    IN IF i > Len(s) THEN ParseFail
       ELSE IF s[i].t = "kv"
            THEN After(Put(acc, s[i].k, Py("str", s[i].v)), i + 1)
       ELSE IF s[i].t = "key"
            THEN LET r == ParseValue(s, i + 1)
                 IN IF r.ok THEN After(Put(acc, s[i].k, r.val), r.next)
                    ELSE ParseFail
       ELSE ParseFail

\* json.loads(llm_output): the whole text must be one value
JsonLoadsValue(s) ==
    LET t == SelectSeq(s, NotWS)
        r == ParseValue(t, 1)
    IN IF r.ok /\ r.next = Len(t) + 1
       THEN [ok |-> TRUE, val |-> r.val]
       ELSE [ok |-> FALSE, val |-> PyNone]

Raised == [raised |-> TRUE, value |-> PyNone]

Returned(value) == [raised |-> FALSE, value |-> value]

\* InstructionDecomposer._call_llm: the parsed reply, or an exception
\* (raise_for_status, a timeout, or the ValueError for invalid JSON)
call_llm(reply) ==
    IF reply.transport # "ok" THEN Raised
    ELSE LET parsed == JsonLoadsValue(reply.text)
         IN IF parsed.ok THEN Returned(parsed.val) ELSE Raised

\* InstructionDecomposer._fallback_to_original
fallback_to_original(instruction) ==
    Py("list",
       << Py("dict",
             [sub_id |-> Py("int", "1"),
              sub_instruction |-> Py("str", instruction),
              action_type |-> Py("str", "navigate"),
              target_landmark |-> Py("str", "destination"),
              spatial_relation |-> Py("str", ""),
              scene_transition |-> Py("str", ""),
              completion_condition |-> Py("str", "reach the final destination")]) >>)

\* Python  key in value ; a TypeError is raised for int and None.  For a
\* str the test is a substring test, which for the strings offered here is
\* equality.
PyIn(key, value) ==
    IF value.type = "dict" THEN Returned(key \in DOMAIN value.val)
    ELSE IF value.type = "list"
         THEN Returned(\E i \in 1..Len(value.val) :
                          value.val[i].type = "str" /\ value.val[i].val = key)
    ELSE IF value.type = "str" THEN Returned(value.val = key)
    ELSE Raised

\* Python  value[key]  for a str key: only a dict has one
PyItem(value, key) ==
    IF value.type = "dict" /\ key \in DOMAIN value.val
    THEN Returned(value.val[key]) ELSE Raised

\* Python truth value
PyBool(value) ==
    IF value.type = "dict" THEN DOMAIN value.val # {}
    ELSE IF value.type = "list" THEN Len(value.val) # 0
    ELSE IF value.type = "str" THEN value.val # ""
    ELSE IF value.type = "int" THEN value.val # "0"
    ELSE FALSE

\* Python len(value): a TypeError is raised for int and None
PyLenDefined(value) == value.type \in {"dict", "list", "str"}

\* decompose returning the value of 'sub_instructions' without the print
\* that calls len on it
decompose_NoLen(instruction, available, reply) ==
    IF ~available THEN fallback_to_original(instruction)
    ELSE LET result == call_llm(reply)
         IN IF result.raised THEN fallback_to_original(instruction)
            ELSE LET has == PyIn("sub_instructions", result.value)
                 IN IF has.raised THEN fallback_to_original(instruction)
                    ELSE IF ~has.value THEN fallback_to_original(instruction)
                    ELSE LET item == PyItem(result.value, "sub_instructions")
                         IN IF item.raised THEN fallback_to_original(instruction)
                            ELSE IF ~PyBool(item.value)
                            THEN fallback_to_original(instruction)
                            ELSE item.value

\* InstructionDecomposer.decompose: every exception of the try block ends
\* in _fallback_to_original
decompose(instruction, available, reply) ==
    IF ~available THEN fallback_to_original(instruction)
    ELSE LET result == call_llm(reply)
         IN IF result.raised THEN fallback_to_original(instruction)
            ELSE LET has == PyIn("sub_instructions", result.value)
                 IN IF has.raised THEN fallback_to_original(instruction)
                    ELSE IF ~has.value THEN fallback_to_original(instruction)
                    ELSE LET item == PyItem(result.value, "sub_instructions")
                         IN IF item.raised THEN fallback_to_original(instruction)
                            ELSE IF ~PyBool(item.value)
                            THEN fallback_to_original(instruction)
                            ELSE IF ~PyLenDefined(item.value)
                            THEN fallback_to_original(instruction)
                            ELSE item.value

Instructions == {"walk to the kitchen", "go upstairs", "stop at the sofa"}

\* one sub-instruction object of the decomposition schema
SubInstructionObj(id, text) ==
    <<LB, KEY("sub_id"), NUM(id), COMMA, KV("sub_instruction", text), RB>>

SubInstructionList ==
    <<LSQ>> \o SubInstructionObj("1", "leave the bedroom") \o <<COMMA>>
    \o SubInstructionObj("2", "enter the kitchen") \o <<RSQ>>

\* the object  {"sub_instructions": value}
WithSubInstructions(value) == <<LB, KEY("sub_instructions")>> \o value \o <<RB>>

DecomposerReplyTexts ==
    { <<LB, KV("instruction_original", "walk"), COMMA, KEY("sub_instructions")>>
         \o SubInstructionList \o <<RB>>,
      WithSubInstructions(SubInstructionList),
      WithSubInstructions(<<LSQ>> \o SubInstructionObj("1", "leave the bedroom")
                          \o <<RSQ>>),
      WithSubInstructions(<<LSQ, RSQ>>),
      WithSubInstructions(<<STR("leave the bedroom")>>),
      WithSubInstructions(<<STR("")>>),
      WithSubInstructions(<<NUM("3")>>),
      WithSubInstructions(<<NUM("0")>>),
      WithSubInstructions(<<NULL>>),
      WithSubInstructions(SubInstructionObj("1", "leave the bedroom")),
      WithSubInstructions(<<LB, RB>>),
      <<LB, KV("instruction_original", "walk"), RB>>,
      <<LB, RB>>,
      SubInstructionList,
      <<LSQ, STR("sub_instructions"), RSQ>>,
      <<STR("sub_instructions")>>,
      <<STR("walk")>>,
      <<NUM("5")>>,
      <<NULL>>,
      <<PROSE>>,
      <<>>,
      <<FENCE, JSONW, WS>> \o WithSubInstructions(SubInstructionList) \o <<WS, FENCE>>,
      <<LB, KEY("sub_instructions")>> \o SubInstructionList }

DecomposerReplies ==
    { [transport |-> "ok", text |-> t] : t \in DecomposerReplyTexts }
    \cup { [transport |-> "error", text |-> <<>>] }

NoReply == [transport |-> "none", text |-> <<>>]

DecomposerInit ==
    /\ api_available = FALSE
    /\ dec_op = "init"
    /\ dec_instruction = ""
    /\ dec_reply = NoReply
    /\ dec_result = PyNone
    /\ dec_count = 0

\* InstructionDecomposer.__init__: the configuration loads or it does not
Construct ==
    /\ dec_op = "init"
    /\ \E loaded \in BOOLEAN : api_available' = loaded
    /\ dec_op' = "constructed"
    /\ UNCHANGED <<dec_instruction, dec_reply, dec_result, dec_count>>
    /\ UNCHANGED <<agentVars, plannerVars, controlVars, episodeVars,
                 restVars>>

\* a call of decompose; without the API no request is sent
DecomposeCall ==
    /\ dec_op # "init"
    /\ dec_count < MaxDecompositions
    /\ \E instruction \in Instructions :
          \E reply \in (IF api_available THEN DecomposerReplies ELSE {NoReply}) :
             /\ dec_instruction' = instruction
             /\ dec_reply' = reply
             /\ dec_result' = decompose(instruction, api_available, reply)
    /\ dec_count' = dec_count + 1
    /\ dec_op' = "decompose"
    /\ UNCHANGED api_available
    /\ UNCHANGED <<agentVars, plannerVars, controlVars, episodeVars,
                 restVars>>

DecomposerNext == Construct \/ DecomposeCall

(***************************************************************************)
(* NaVid_Agent.run_episode, src/manual_control.py, with the simulator it   *)
(* drives.  early_stop_rotation and early_stop_steps are its parameters.   *)
(***************************************************************************)
LastDtgInit == 999

\* the distances to the goal the simulator reports (never 999)
Distances == {3, 5}

\* the model outputs offered during an episode
EpisodeOutputs ==
    { T_move \o W_forward \o <<" ", "7", "5", ".">>,
      T_turn \o W_left \o <<" ", "3", "0", ".">>,
      W_stop \o <<".">> }

\* the episodes handed to Env; evaluate_agent runs one iteration for each
NumEpisodes == 2

\* next(self._episode_iterator) of the simulator's reset: the episodes in
\* order, starting again after the last
NextEpisode(e) == (e % NumEpisodes) + 1

EpisodeInit ==
    /\ ep_pc = "idle"
    /\ iter_step = 0
    /\ continuse_rotation_count = 0
    /\ last_dtg = LastDtgInit
    /\ ep_action = None
    /\ env_dtg = 5
    /\ ep_over = FALSE
    /\ dtg_seen = <<>>
    /\ episode_count = 0
    /\ current_episode = 0
    /\ env_resets = 0
    /\ env_steps = 0
    /\ first_obs_episode = 0
    /\ first_info_episode = 0
    /\ leftover = 0

\* the head of one iteration of evaluate_agent's loop: env.reset() and
\* agent.reset()
EvaluateReset ==
    /\ ep_pc = "idle"
    /\ episode_count < NumEpisodes
    /\ ep_pc' = "reset"
    /\ current_episode' = NextEpisode(current_episode)
    /\ env_resets' = 1
    /\ ep_over' = FALSE
    /\ \E d \in Distances : env_dtg' = d
    /\ leftover' = Len(pending_action_list)
    /\ ClearPending
    /\ UNCHANGED <<iter_step, continuse_rotation_count, last_dtg, ep_action,
                   dtg_seen, episode_count, env_steps, first_obs_episode,
                   first_info_episode>>
    /\ UNCHANGED <<plannerVars, controlVars, decomposerVars, restVars>>

\* run_episode is entered: its locals are initialised
RunEpisodeStart ==
    /\ ep_pc = "reset"
    /\ ep_pc' = "loop"
    /\ iter_step' = 0
    /\ continuse_rotation_count' = 0
    /\ last_dtg' = LastDtgInit
    /\ dtg_seen' = <<>>
    /\ env_steps' = 0
    /\ first_obs_episode' = 0
    /\ first_info_episode' = 0
    /\ UNCHANGED <<ep_action, env_dtg, ep_over, episode_count,
                   current_episode, env_resets, leftover>>
    /\ UNCHANGED <<agentVars, plannerVars, controlVars, decomposerVars,
                   restVars>>

\* the iteration with both comparisons one too late
RunEpisodeTick_LateStop ==
    /\ ep_pc = "loop" /\ ~ep_over
    /\ (PopPending \/ Infer(EpisodeOutputs))
    /\ LET first  == iter_step = 0
           rot    == IF env_dtg # last_dtg THEN 0
                     ELSE continuse_rotation_count + 1
           forced == rot > EarlyStopRotation + 1 \/ iter_step > EarlyStopSteps + 1
           issued == IF forced THEN 0 ELSE action'
       IN /\ last_dtg' = env_dtg
          /\ continuse_rotation_count' = rot
          /\ ep_action' = issued
          /\ \E over \in BOOLEAN :
                ep_over' = (issued = 0 \/ over)
          /\ \E d \in Distances :
                env_dtg' = IF first \/ issued = 1 THEN d ELSE env_dtg
          /\ current_episode' = IF first THEN NextEpisode(current_episode)
                                ELSE current_episode
          /\ env_resets' = IF first THEN env_resets + 1 ELSE env_resets
          /\ first_info_episode' = IF first THEN current_episode
                                   ELSE first_info_episode
          /\ first_obs_episode' = IF first THEN NextEpisode(current_episode)
                                  ELSE first_obs_episode
    /\ iter_step' = iter_step + 1
    /\ env_steps' = env_steps + 1
    /\ dtg_seen' = Append(dtg_seen, env_dtg)
    /\ UNCHANGED <<ep_pc, episode_count, leftover>>
    /\ UNCHANGED <<plannerVars, controlVars, decomposerVars, restVars>>

\* one iteration of the while loop: read the metrics, update the rotation
\* counter, call act (on the observation of a second env.reset() while obs
\* is None, that is in the first iteration), override its action, step the
\* simulator
RunEpisodeTick ==
    /\ ep_pc = "loop" /\ ~ep_over
    /\ (PopPending \/ Infer(EpisodeOutputs))
    /\ LET first  == iter_step = 0
           rot    == IF env_dtg # last_dtg THEN 0
                     ELSE continuse_rotation_count + 1
           forced == rot > EarlyStopRotation \/ iter_step > EarlyStopSteps
           issued == IF forced THEN 0 ELSE action'
       IN /\ last_dtg' = env_dtg
          /\ continuse_rotation_count' = rot
          /\ ep_action' = issued
          /\ \E over \in BOOLEAN :
                ep_over' = (issued = 0 \/ over)
          /\ \E d \in Distances :
                env_dtg' = IF first \/ issued = 1 THEN d ELSE env_dtg
          /\ current_episode' = IF first THEN NextEpisode(current_episode)
                                ELSE current_episode
          /\ env_resets' = IF first THEN env_resets + 1 ELSE env_resets
          /\ first_info_episode' = IF first THEN current_episode
                                   ELSE first_info_episode
          /\ first_obs_episode' = IF first THEN NextEpisode(current_episode)
                                  ELSE first_obs_episode
    /\ iter_step' = iter_step + 1
    /\ env_steps' = env_steps + 1
    /\ dtg_seen' = Append(dtg_seen, env_dtg)
    /\ UNCHANGED <<ep_pc, episode_count, leftover>>
    /\ UNCHANGED <<plannerVars, controlVars, decomposerVars, restVars>>

\* while not env.episode_over ... return iter_step
RunEpisodeReturn ==
    /\ ep_pc = "loop" /\ ep_over
    /\ ep_pc' = "returned"
    /\ UNCHANGED <<iter_step, continuse_rotation_count, last_dtg, ep_action,
                   env_dtg, ep_over, dtg_seen, episode_count,
                   current_episode, env_resets, env_steps, first_obs_episode,
                   first_info_episode, leftover>>
    /\ UNCHANGED <<agentVars, plannerVars, controlVars, decomposerVars,
                   restVars>>

\* the rest of the iteration of evaluate_agent's loop: the metrics are
\* collected and count is incremented
EvaluateCollect ==
    /\ ep_pc = "returned"
    /\ ep_pc' = "idle"
    /\ episode_count' = episode_count + 1
    /\ UNCHANGED <<iter_step, continuse_rotation_count, last_dtg, ep_action,
                   env_dtg, ep_over, dtg_seen, current_episode, env_resets,
                   env_steps, first_obs_episode, first_info_episode, leftover>>
    /\ UNCHANGED <<agentVars, plannerVars, controlVars, decomposerVars,
                   restVars>>

EpisodeNext ==
    \/ EvaluateReset
    \/ RunEpisodeStart
    \/ RunEpisodeTick
    \/ RunEpisodeReturn
    \/ EvaluateCollect

(***************************************************************************)
(* run_manual_control, src/manual_control.py                               *)
(***************************************************************************)
ManualInit ==
    /\ manual_pc = "select"
    /\ manual_step_count = 0
    /\ manual_env_actions = <<>>
    /\ manual_episode_over = FALSE
    /\ manual_op = "init"

\* select_episode gave an episode: env.reset(), controller.reset(episode_id)
ManualSelectEpisode ==
    /\ manual_pc = "select"
    /\ manual_pc' = "loop"
    /\ manual_step_count' = 0
    /\ manual_env_actions' = <<>>
    /\ manual_episode_over' = FALSE
    /\ manual_op' = "reset"
    /\ UNCHANGED <<agentVars, plannerVars, controlVars, decomposerVars,
                   episodeVars, evalVars, chatVars>>

\* select_episode gave None: the program ends
ManualSelectNone ==
    /\ manual_pc = "select"
    /\ manual_pc' = "returned"
    /\ manual_op' = "none"
    /\ UNCHANGED <<manual_step_count, manual_env_actions, manual_episode_over>>
    /\ UNCHANGED <<agentVars, plannerVars, controlVars, decomposerVars,
                   episodeVars, evalVars, chatVars>>

\* input "exit"
ManualExit ==
    /\ manual_pc = "loop" /\ ~manual_episode_over
    /\ manual_pc' = "returned"
    /\ manual_op' = "exit"
    /\ UNCHANGED <<manual_step_count, manual_env_actions, manual_episode_over>>
    /\ UNCHANGED <<agentVars, plannerVars, controlVars, decomposerVars,
                   episodeVars, evalVars, chatVars>>

\* the quit branch without  controller.step_count += 1
ManualQuit_NoCount ==
    /\ manual_pc = "loop" /\ ~manual_episode_over
    /\ manual_step_count < MaxSteps
    /\ manual_env_actions' = Append(manual_env_actions, 0)
    /\ manual_episode_over' = TRUE
    /\ manual_pc' = "result"
    /\ manual_op' = "quit"
    /\ UNCHANGED manual_step_count
    /\ UNCHANGED <<agentVars, plannerVars, controlVars, decomposerVars,
                   episodeVars, evalVars, chatVars>>

\* input "q": STOP is sent, the counter incremented, the loop left
ManualQuit ==
    /\ manual_pc = "loop" /\ ~manual_episode_over
    /\ manual_step_count < MaxSteps
    /\ manual_env_actions' = Append(manual_env_actions, 0)
    /\ manual_episode_over' = TRUE
    /\ manual_step_count' = manual_step_count + 1
    /\ manual_pc' = "result"
    /\ manual_op' = "quit"
    /\ UNCHANGED <<agentVars, plannerVars, controlVars, decomposerVars,
                   episodeVars, evalVars, chatVars>>

\* an input that is not a key of action_dict
ManualInvalid ==
    /\ manual_pc = "loop" /\ ~manual_episode_over
    /\ manual_op' = "invalid"
    /\ UNCHANGED <<manual_pc, manual_step_count, manual_env_actions,
                   manual_episode_over>>
    /\ UNCHANGED <<agentVars, plannerVars, controlVars, decomposerVars,
                   episodeVars, evalVars, chatVars>>

\* the action branch without the break on STOP, on a simulator that does
\* not end the episode by itself
ManualAction_NoBreak ==
    /\ manual_pc = "loop" /\ ~manual_episode_over
    /\ manual_step_count < MaxSteps
    /\ \E action_id \in 0..3, over \in BOOLEAN :
          /\ manual_env_actions' = Append(manual_env_actions, action_id)
          /\ manual_episode_over' = over
          /\ manual_pc' = "loop"
    /\ manual_step_count' = manual_step_count + 1
    /\ manual_op' = "action"
    /\ UNCHANGED <<agentVars, plannerVars, controlVars, decomposerVars,
                   episodeVars, evalVars, chatVars>>

\* input "0".."3": save_step_info, env.step, counter incremented, break on 0
ManualAction ==
    /\ manual_pc = "loop" /\ ~manual_episode_over
    /\ manual_step_count < MaxSteps
    /\ \E action_id \in 0..3, over \in BOOLEAN :
          /\ action_id = 0 => over
          /\ manual_env_actions' = Append(manual_env_actions, action_id)
          /\ manual_episode_over' = over
          /\ manual_pc' = IF action_id = 0 THEN "result" ELSE "loop"
    /\ manual_step_count' = manual_step_count + 1
    /\ manual_op' = "action"
    /\ UNCHANGED <<agentVars, plannerVars, controlVars, decomposerVars,
                   episodeVars, evalVars, chatVars>>

\* while not env.episode_over
ManualLoopEnd ==
    /\ manual_pc = "loop" /\ manual_episode_over
    /\ manual_pc' = "result"
    /\ manual_op' = "episode_over"
    /\ UNCHANGED <<manual_step_count, manual_env_actions, manual_episode_over>>
    /\ UNCHANGED <<agentVars, plannerVars, controlVars, decomposerVars,
                   episodeVars, evalVars, chatVars>>

\* the result of the episode is saved; back to select_episode
ManualCollect ==
    /\ manual_pc = "result"
    /\ manual_pc' = "select"
    /\ manual_op' = "result"
    /\ UNCHANGED <<manual_step_count, manual_env_actions, manual_episode_over>>
    /\ UNCHANGED <<agentVars, plannerVars, controlVars, decomposerVars,
                   episodeVars, evalVars, chatVars>>

ManualNext ==
    \/ ManualSelectEpisode
    \/ ManualSelectNone
    \/ ManualExit
    \/ ManualQuit
    \/ ManualInvalid
    \/ ManualAction
    \/ ManualLoopEnd
    \/ ManualCollect

(***************************************************************************)
(* evaluate_agent and its files under result_path, src/manual_control.py;  *)
(* one process per dataset split, src/run.py                               *)
(***************************************************************************)
\* the evaluation processes sharing one result path, one per split
Procs == {1, 2}

\* the episodes of one split
SplitSize == 21

\* min(20, len(unevaluated))
MaxEpisodesPerRun == 20

\* dataset.get_splits(split_num)[split_id]: the episode ids of a split, in
\* order; the splits do not overlap.  An id stands for its decimal text,
\* which is what evaluated.txt holds, one per line.
DatasetSplit(p) == [i \in 1..SplitSize |-> 100 * p + i]

Lines(file) == {file[i] : i \in DOMAIN file}

\* [x for x in s if x not in ids]
NotIn(s, ids) == SelectSeq(s, LAMBDA x : x \notin ids)

\* the simulator's iterator over n episodes: the place after place e
NextOf(e, n) == (e % n) + 1

MissingFile == [state |-> "missing", value |-> 0]

EmptyFile == [state |-> "empty", value |-> 0]

NumberFile(n) == [state |-> "number", value |-> n]

EvaluateInit ==
    /\ evaluated_txt = <<>>
    /\ summary_index = MissingFile
    /\ run_indexes = <<>>
    /\ eval_pc = [p \in Procs |-> "start"]
    /\ evaluated_ids = [p \in Procs |-> {}]
    /\ selected = [p \in Procs |-> <<>>]
    /\ eval_count = [p \in Procs |-> 0]
    /\ eval_iterator = [p \in Procs |-> 0]
    /\ ran = [p \in Procs |-> {}]
    /\ all_results = [p \in Procs |-> <<>>]
    /\ last_idx = [p \in Procs |-> 0]
    /\ run_idx = [p \in Procs |-> 0]

\* evaluate_agent up to the construction of Env: evaluated.txt is read, the
\* unevaluated episodes are filtered and the first 20 of them selected
EvaluateSelect(p) ==
    /\ eval_pc[p] = "start"
    /\ LET ids         == Lines(evaluated_txt)
           unevaluated == NotIn(DatasetSplit(p), ids)
           max_episodes == Min(MaxEpisodesPerRun, Len(unevaluated))
       IN /\ evaluated_ids' = [evaluated_ids EXCEPT ![p] = ids]
          /\ IF Len(unevaluated) = 0
             THEN /\ eval_pc' = [eval_pc EXCEPT ![p] = "returned"]
                  /\ UNCHANGED <<selected, eval_count, eval_iterator, ran,
                                 all_results>>
             ELSE /\ eval_pc' = [eval_pc EXCEPT ![p] = "loop"]
                  /\ selected' = [selected EXCEPT
                                    ![p] = SubSeq(unevaluated, 1, max_episodes)]
                  /\ eval_count' = [eval_count EXCEPT ![p] = 0]
                  /\ eval_iterator' = [eval_iterator EXCEPT ![p] = 0]
                  /\ ran' = [ran EXCEPT ![p] = {}]
                  /\ all_results' = [all_results EXCEPT ![p] = <<>>]
    /\ UNCHANGED <<evaluated_txt, summary_index, run_indexes, last_idx,
                   run_idx>>
    /\ UNCHANGED <<agentVars, plannerVars, controlVars, decomposerVars,
                   episodeVars, manualVars, chatVars>>

\* one iteration of the main loop: env.reset(), agent.reset(), run_episode
\* (which resets the simulator once more before its first step), the
\* result of env.current_episode is appended to all_results
EvaluateIteration(p) ==
    /\ eval_pc[p] = "loop"
    /\ eval_count[p] < Len(selected[p])
    /\ LET n      == Len(selected[p])
           first  == NextOf(eval_iterator[p], n)
           second == NextOf(first, n)
       IN /\ eval_iterator' = [eval_iterator EXCEPT ![p] = second]
          /\ ran' = [ran EXCEPT ![p] = @ \cup {selected[p][second]}]
          /\ all_results' = [all_results EXCEPT
                               ![p] = Append(@, selected[p][second])]
    /\ eval_count' = [eval_count EXCEPT ![p] = @ + 1]
    /\ UNCHANGED <<evaluated_txt, summary_index, run_indexes, eval_pc,
                   evaluated_ids, selected, last_idx, run_idx>>
    /\ UNCHANGED <<agentVars, plannerVars, controlVars, decomposerVars,
                   episodeVars, manualVars, chatVars>>

\* after the loop: the ids of dataset.episodes that were not in
\* evaluated_ids are appended to evaluated.txt
EvaluateAppend(p) ==
    /\ eval_pc[p] = "loop"
    /\ eval_count[p] = Len(selected[p])
    /\ evaluated_txt' = evaluated_txt \o NotIn(selected[p], evaluated_ids[p])
    /\ evaluated_ids' = [evaluated_ids EXCEPT ![p] = @ \cup Lines(selected[p])]
    /\ eval_pc' = [eval_pc EXCEPT ![p] = "read_index"]
    /\ UNCHANGED <<summary_index, run_indexes, selected, eval_count,
                   eval_iterator, ran, all_results, last_idx, run_idx>>
    /\ UNCHANGED <<agentVars, plannerVars, controlVars, decomposerVars,
                   episodeVars, manualVars, chatVars>>

\* summary_index.txt is read: 0 when it is missing, 0 when int() raises on
\* its content
EvaluateReadIndex(p) ==
    /\ eval_pc[p] = "read_index"
    /\ Len(all_results[p]) > 0
    /\ LET idx == IF summary_index.state = "number"
                  THEN summary_index.value ELSE 0
       IN /\ last_idx' = [last_idx EXCEPT ![p] = idx]
          /\ run_idx' = [run_idx EXCEPT ![p] = idx + 1]
    /\ eval_pc' = [eval_pc EXCEPT ![p] = "open_index"]
    /\ UNCHANGED <<evaluated_txt, summary_index, run_indexes, evaluated_ids,
                   selected, eval_count, eval_iterator, ran, all_results>>
    /\ UNCHANGED <<agentVars, plannerVars, controlVars, decomposerVars,
                   episodeVars, manualVars, chatVars>>

\* open(index_file, "w"): the file is truncated
EvaluateOpenIndex(p) ==
    /\ eval_pc[p] = "open_index"
    /\ summary_index' = EmptyFile
    /\ eval_pc' = [eval_pc EXCEPT ![p] = "write_index"]
    /\ UNCHANGED <<evaluated_txt, run_indexes, evaluated_ids, selected,
                   eval_count, eval_iterator, ran, all_results, last_idx,
                   run_idx>>
    /\ UNCHANGED <<agentVars, plannerVars, controlVars, decomposerVars,
                   episodeVars, manualVars, chatVars>>

\* idx_f.write(str(run_idx)) reaches the file when the with block closes
\* it; the summary is appended under this index and the function returns
EvaluateWriteIndex(p) ==
    /\ eval_pc[p] = "write_index"
    /\ summary_index' = NumberFile(run_idx[p])
    /\ run_indexes' = Append(run_indexes, run_idx[p])
    /\ eval_pc' = [eval_pc EXCEPT ![p] = "start"]
    /\ UNCHANGED <<evaluated_txt, evaluated_ids, selected, eval_count,
                   eval_iterator, ran, all_results, last_idx, run_idx>>
    /\ UNCHANGED <<agentVars, plannerVars, controlVars, decomposerVars,
                   episodeVars, manualVars, chatVars>>

EvaluateNext ==
    \E p \in Procs :
        \/ EvaluateSelect(p)
        \/ EvaluateIteration(p)
        \/ EvaluateAppend(p)
        \/ EvaluateReadIndex(p)
        \/ EvaluateOpenIndex(p)
        \/ EvaluateWriteIndex(p)

(***************************************************************************)
(* The chat loop of src/VLM/qwen-chat.py                                   *)
(***************************************************************************)
MAX_HISTORY_TURNS == 10

MAX_TOKENS == 4096

\* the lengths, in characters, of the texts the user enters
UserTextLengths == {10, 1500}

\* the length of the text the model generates
ReplyTextLengths == {10}

Message(role, len) == [role |-> role, len |-> len]

\* len(total_text) for the text parts of the messages of h
RECURSIVE TextLen(_)
TextLen(h) == IF Len(h) = 0 THEN 0 ELSE h[1].len + TextLen(Tail(h))

\* manage_history, strategy 1: conversation_history[-(MAX_HISTORY_TURNS * 2):]
TrimTurns(h) ==
    IF Len(h) > MAX_HISTORY_TURNS * 2
    THEN SubSeq(h, Len(h) - MAX_HISTORY_TURNS * 2 + 1, Len(h))
    ELSE h

\* manage_history, strategy 2: while len(total_text) * 1.5 > MAX_TOKENS and
\* more than two messages are left, drop conversation_history[:2]
RECURSIVE TrimTokens(_)
TrimTokens(h) ==
    IF 3 * TextLen(h) > 2 * MAX_TOKENS /\ Len(h) > 2
    THEN TrimTokens(SubSeq(h, 3, Len(h)))
    ELSE h

manage_history(h) == TrimTokens(TrimTurns(h))

ChatInit ==
    /\ conversation_history = <<>>
    /\ model_input = <<>>
    /\ chat_pc = "prompt"
    /\ chat_op = "init"

\* an input that is no command: generate_response appends the user message,
\* calls manage_history, gives the history to the model and appends the
\* reply; when the generation raises, the handler of the loop pops the last
\* message if it is a user message
GenerateResponse ==
    /\ chat_pc = "prompt"
    /\ \E len \in UserTextLengths, reply \in ReplyTextLengths, raised \in BOOLEAN :
          LET managed == manage_history(Append(conversation_history,
                                               Message("user", len)))
          IN /\ model_input' = managed
             /\ conversation_history' =
                   IF ~raised THEN Append(managed, Message("assistant", reply))
                   ELSE IF Len(managed) > 0 /\ managed[Len(managed)].role = "user"
                   THEN SubSeq(managed, 1, Len(managed) - 1)
                   ELSE managed
             /\ chat_op' = IF raised THEN "error" ELSE "generate"
    /\ UNCHANGED chat_pc
    /\ UNCHANGED <<agentVars, plannerVars, controlVars, decomposerVars,
                   episodeVars, manualVars, evalVars>>

\* input 'clear'
ChatClear ==
    /\ chat_pc = "prompt"
    /\ conversation_history' = <<>>
    /\ chat_op' = "clear"
    /\ UNCHANGED <<model_input, chat_pc>>
    /\ UNCHANGED <<agentVars, plannerVars, controlVars, decomposerVars,
                   episodeVars, manualVars, evalVars>>

\* input 'status', or an empty input
ChatStatus ==
    /\ chat_pc = "prompt"
    /\ chat_op' = "status"
    /\ UNCHANGED <<conversation_history, model_input, chat_pc>>
    /\ UNCHANGED <<agentVars, plannerVars, controlVars, decomposerVars,
                   episodeVars, manualVars, evalVars>>

\* input 'exit', 'quit' or 'q', or KeyboardInterrupt
ChatExit ==
    /\ chat_pc = "prompt"
    /\ chat_pc' = "exited"
    /\ chat_op' = "exit"
    /\ UNCHANGED <<conversation_history, model_input>>
    /\ UNCHANGED <<agentVars, plannerVars, controlVars, decomposerVars,
                   episodeVars, manualVars, evalVars>>

ChatNext == GenerateResponse \/ ChatClear \/ ChatStatus \/ ChatExit

(***************************************************************************)
(* Specifications                                                          *)
(***************************************************************************)
Init ==
    /\ AgentInit
    /\ PlannerInit
    /\ ControlInit
    /\ DecomposerInit
    /\ EpisodeInit
    /\ ManualInit
    /\ EvaluateInit
    /\ ChatInit

SpecAgent == Init /\ [][AgentNext]_vars

SpecPlanner == Init /\ [][PlannerNext]_vars

SpecControl == Init /\ [][ControlNext]_vars

SpecDecomposer == Init /\ [][DecomposerNext]_vars

\* the loop of run_episode is sequential code: it keeps running
SpecEpisode == Init /\ [][EpisodeNext]_vars /\ WF_vars(EpisodeNext)

\* the three programs are separate entry points: a run is a run of one of
\* them, the other two stay as they were constructed
ControlIdle == loop_pc = "start" /\ loop_op = "reset"

ManualIdle == manual_pc = "select" /\ manual_op = "init"

EpisodeIdle == ep_pc = "idle" /\ episode_count = 0 /\ env_resets = 0

LoopsNext ==
    \/ ManualIdle /\ EpisodeIdle /\ ControlNext
    \/ ControlIdle /\ EpisodeIdle /\ ManualNext
    \/ ControlIdle /\ ManualIdle /\ EpisodeNext

SpecLoops == Init /\ [][LoopsNext]_vars

SpecEvaluate == Init /\ [][EvaluateNext]_vars

SpecChat == Init /\ [][ChatNext]_vars

(***************************************************************************)
(* Properties of NaVid_Agent.act (checked under SpecAgent)                 *)
(***************************************************************************)
\* what extract_result made of the last model output
LastParse == extract_result(DropLast(navigation))

\* the primitives one decomposition produced: the action returned plus the
\* actions left in the queue
Produced == 1 + Len(pending_action_list)

Unit(action_index) == IF action_index = 1 THEN ForwardUnit ELSE TurnUnit

Forward75cm == T_move \o W_forward \o <<" ", "7", "5">> \o T_cm

Left180Degrees == T_turn \o W_left \o <<" ", "1", "8", "0">> \o T_degrees

\* C1 as stated: after a decomposition of a forward/left/right directive with
\* magnitude M, the number of primitives produced is min(3, floor(M/U)),
\* never negative and never above 3.
C1_CapInvariant ==
    (agent_op = "inference" /\ LastParse.action_index \in 1..3) =>
        /\ Produced = Min(3, LastParse.num \div Unit(LastParse.action_index))
        /\ Produced >= 0
        /\ Produced <= 3

\* C1 amended: the number of primitives produced is min(3, floor(M/U)) when
\* M >= U, all of them the parsed verb; when M < U (negative M included) it
\* is exactly one exploratory primitive in 1..3; it is never below 1 and never
\* above 3. "move forward 75cm" gives three FORWARD and "turn left 180
\* degrees" three LEFT.
C1_CapAmended ==
    /\ (agent_op = "inference" /\ LastParse.action_index \in 1..3) =>
          LET verb == LastParse.action_index
              M == LastParse.num
              U == Unit(verb)
          IN /\ Produced = IF M >= U THEN Min(3, M \div U) ELSE 1
             /\ Produced >= 1
             /\ Produced <= 3
             /\ M >= U => /\ action = verb
                          /\ \A i \in 1..Len(pending_action_list) :
                                pending_action_list[i] = verb
             /\ M < U => action \in 1..3
    /\ (agent_op = "inference" /\ navigation = Forward75cm) =>
          (action = 1 /\ pending_action_list = <<1, 1>>)
    /\ (agent_op = "inference" /\ navigation = Left180Degrees) =>
          (action = 2 /\ pending_action_list = <<2, 2>>)

\* C1 witness: "turn left 180 degrees" was decomposed and capped
C1_Witness ==
    /\ agent_op = "inference"
    /\ navigation = Left180Degrees
    /\ action = 2
    /\ pending_action_list = <<2, 2>>

\* C2: a step of act calls the model only if the queue was empty before it;
\* with a non-empty queue it returns the head, leaves the tail and makes no
\* model call.
C2_Draining ==
    [][/\ inference_count' # inference_count => pending_action_list = <<>>
       /\ (agent_op' # "reset" /\ pending_action_list # <<>>) =>
             /\ action' = Head(pending_action_list)
             /\ pending_action_list' = Tail(pending_action_list)
             /\ inference_count' = inference_count
             /\ navigation' = navigation]_vars

\* C2 witness: a cached action was popped after one inference
C2_Witness ==
    /\ agent_op = "pending"
    /\ inference_count = 1
    /\ action = 1
    /\ pending_action_list = <<1>>

\* C9: when the text given to extract_result contains "stop", the act call
\* returns STOP (0) in the same tick and leaves the queue empty, whatever
\* number or other verb the text contains.
C9_StopAtomic ==
    (agent_op = "inference" /\ Contains(DropLast(navigation), W_stop)) =>
        (action = 0 /\ pending_action_list = <<>>)

\* C9 witness: "stop forward 75." was answered with a single STOP
C9_Witness ==
    /\ agent_op = "inference"
    /\ navigation = W_stop \o <<" ">> \o W_forward \o <<" ", "7", "5", ".">>
    /\ action = 0
    /\ pending_action_list = <<>>

\* C10: when extract_result recovers no action from the model output, act
\* returns one primitive out of MOVE_FORWARD, TURN_LEFT, TURN_RIGHT, never
\* STOP, and leaves the queue empty.
C10_DefaultAction ==
    (agent_op = "inference" /\ LastParse.action_index = None) =>
        (action \in 1..3 /\ pending_action_list = <<>>)

\* C10 witness: "go." carries no verb and was answered with TURN_RIGHT
C10_Witness ==
    /\ agent_op = "inference"
    /\ navigation = T_go \o <<".">>
    /\ action = 3
    /\ pending_action_list = <<>>

(***************************************************************************)
(* Properties of the controller of src/llm_manual_control.py               *)
(* (checked under SpecControl)                                             *)
(***************************************************************************)
Destination(subtask) == Get(subtask, "subtask_destination", "None")

InitialOps == {"generate_initial_subtask", "generate_initial_subtask_v1"}

VerifyOps == {"verify_and_plan_next", "verify_and_plan_next_v1"}

\* C4 as stated: an initial-planning response that lacks one of the four keys
\* subtask_destination, subtask_instruction, planning_hints,
\* completion_criteria makes generate_initial_subtask return a failure.
C4_RequiredKeys ==
    (/\ planner_op \in InitialOps
     /\ api_result.ok
     /\ FourKeys \ DOMAIN api_result.json # {}) =>
        planner_result = NoneSubTask

\* C5 as stated: the completion boolean returned by check_task_completion is
\* true only when the confidence exceeds 0.85.
C5_ConfidenceThreshold ==
    planner_op = "check_task_completion" =>
        (planner_result.is_completed => planner_result.confidence > 85)

\* the text _call_llm_api tries to parse
ContentText == StripFences(api_response.text)

\* the brace-delimited substrings of s that are valid JSON
ObjectSpans(s) ==
    { span \in (1..Len(s)) \X (1..Len(s)) :
        /\ span[1] < span[2]
        /\ s[span[1]].t = "lb"
        /\ s[span[2]].t = "rb"
        /\ JsonLoads(SubSeq(s, span[1], span[2])).ok }

FirstObject(s) ==
    LET span == CHOOSE a \in ObjectSpans(s) :
                   \A b \in ObjectSpans(s) :
                       a[1] < b[1] \/ (a[1] = b[1] /\ a[2] <= b[2])
    IN JsonLoads(SubSeq(s, span[1], span[2])).val

GatewayOps == {"generate_initial_subtask", "verify_and_plan_next",
               "check_task_completion"}

\* C6 as stated: when the fence-stripped text parses directly the repair pass
\* is not run; when it does not but holds a balanced brace-delimited substring
\* that is valid JSON, _call_llm_api returns the object of the first such
\* substring.
C6_RepairMonotonicity ==
    (planner_op \in GatewayOps /\ api_response.transport = "ok") =>
        /\ JsonLoads(ContentText).ok =>
              /\ ~api_result.repair_ran
              /\ api_result.ok
              /\ api_result.json = JsonLoads(ContentText).val
        /\ (~JsonLoads(ContentText).ok /\ ObjectSpans(ContentText) # {}) =>
              /\ api_result.ok
              /\ api_result.json = FirstObject(ContentText)

\* brace depth after the first j lexemes
Depth(s, j) ==
    Cardinality({i \in 1..j : s[i].t = "lb"})
    - Cardinality({i \in 1..j : s[i].t = "rb"})

\* no closing brace brings the depth back to zero
NeverBalanced(s) == \A j \in 1..Len(s) : s[j].t = "rb" => Depth(s, j) # 0

\* C7: a response text that is not valid JSON and whose brace depth never
\* returns to zero makes _call_llm_api return None, and the planner
\* operation builds no SubTask and reports no completion.
C7_UnrecoverableText ==
    (/\ planner_op # "init"
     /\ api_response.transport = "ok"
     /\ ~JsonLoads(ContentText).ok
     /\ NeverBalanced(ContentText)) =>
        /\ ~api_result.ok
        /\ planner_op \in InitialOps => planner_result = NoneSubTask
        /\ planner_op \in VerifyOps =>
              /\ planner_result.next_subtask = NoneSubTask
              /\ ~planner_result.is_completed
        /\ planner_op = "check_task_completion" => ~planner_result.is_completed

\* C7 witness: the truncated record  {"subtask_destination": ... (no closing
\* brace)  was answered with a failure
C7_Witness ==
    /\ planner_op = "generate_initial_subtask"
    /\ api_response.transport = "ok"
    /\ api_response.text = SubSeq(FullPlan, 1, Len(FullPlan) - 1)
    /\ api_result.repair_ran
    /\ ~api_result.ok
    /\ planner_result = NoneSubTask

\* C8 as stated: a verification response with is_completed = true that has no
\* next_subtask, or whose next_subtask lacks one of the four planning keys,
\* makes verify_and_plan_next report a failure with no next sub-task.
C8_CompletionNeedsNext ==
    (/\ planner_op \in VerifyOps
     /\ api_result.ok
     /\ "is_completed" \in DOMAIN api_result.json
     /\ Truthy(api_result.json["is_completed"])
     /\ \/ "next_subtask" \notin DOMAIN api_result.json
        \/ FourKeys \ DOMAIN api_result.json["next_subtask"] # {}) =>
        /\ ~planner_result.is_completed
        /\ planner_result.next_subtask = NoneSubTask

\* the keys whose absence each operation of src/Sub_vlm/thinking.py reports
RequiredOf(op) ==
    IF op = "generate_initial_subtask" THEN RequiredFields
    ELSE IF op = "verify_and_plan_next" THEN {"is_completed"}
    ELSE CompletionFields

\* the failure taxonomy of an exchange with the endpoint
FailureKind(op, resp, result) ==
    IF resp.transport # "ok" THEN "TransportError"
    ELSE IF ~result.ok THEN "MalformedResponse"
    ELSE IF RequiredOf(op) \ DOMAIN result.json # {} THEN "IncompleteResponse"
    ELSE "none"

\* C11 as stated: two consecutive calls of the same planner operation that
\* fail in different ways (transport failure, unrecoverable text, JSON that
\* lacks required keys) return different values to the caller.
C11_FailureKindsDistinct ==
    [][(/\ planner_op \in GatewayOps
        /\ planner_op' = planner_op
        /\ FailureKind(planner_op, api_response, api_result) # "none"
        /\ FailureKind(planner_op, api_response', api_result') # "none"
        /\ FailureKind(planner_op, api_response', api_result')
              # FailureKind(planner_op, api_response, api_result)) =>
            planner_result' # planner_result]_vars

\* the value an operation returns when it reports a failure
IsFailureValue(op, result) ==
    IF op \in InitialOps THEN result = NoneSubTask
    ELSE IF op \in VerifyOps
    THEN ~result.is_completed /\ result.next_subtask = NoneSubTask
    ELSE ~result.is_completed /\ result.confidence = 0

\* C12: every call of a planner operation sends exactly one request to the
\* endpoint, whether the request succeeds, fails in transport or returns
\* text that cannot be parsed; a gateway failure is returned to the caller
\* as the operation's failure value.
C12_NoRetry ==
    [][/\ request_count' = request_count + 1
       /\ ~api_result'.ok => IsFailureValue(planner_op', planner_result')]_vars

\* C12 witness: a verification whose request failed in transport, answered
\* after that one request
C12_Witness ==
    /\ planner_op = "verify_and_plan_next"
    /\ api_response.transport = "error"
    /\ request_count = 1
    /\ ~planner_result.is_completed
    /\ planner_result.advice = "API call failed, unable to verify"

(***************************************************************************)
(* Properties of both controllers (checked under SpecControl)              *)
(***************************************************************************)
InLoop == loop_pc \in {"loop", "loop_v1"}

\* C13: at every decision point of the control loop, in both controller
\* revisions, current_subtask is defined (not None, not empty), whatever the
\* initial planning call and the later verification calls returned.
C13_SubtaskDefined ==
    InLoop => (current_subtask # NoneSubTask /\ DOMAIN current_subtask # {})

\* C13 witness: the initial planning call failed, the default sub-task was
\* installed, and a failed verification later left it in place
C13_Witness ==
    /\ loop_pc = "loop_v1"
    /\ loop_op = "verify_subtask_completion"
    /\ ~llm_response.ok
    /\ current_subtask = DefaultSubTask

\* the verification response is a failure: transport error or unrecoverable
\* text (the gateway returned None), or JSON that lacks keys the
\* verification needs
VerificationFailed(op, response) ==
    \/ ~response.ok
    \/ /\ op = "verify_and_replan"
       /\ \/ "is_completed" \notin DOMAIN response.json
          \/ /\ Truthy(response.json["is_completed"])
             /\ \/ "next_subtask" \notin DOMAIN response.json
                \/ FourKeys \ DOMAIN response.json["next_subtask"] # {}
          \/ /\ ~Truthy(response.json["is_completed"])
             /\ FourKeys \ DOMAIN response.json # {}
    \/ /\ op = "verify_subtask_completion"
       /\ \/ {"is_completed", "completion_analysis"} \ DOMAIN response.json # {}
          \/ /\ Truthy(response.json["is_completed"])
             /\ \/ "next_subtask" \notin DOMAIN response.json
                \/ RequiredFields_v1 \ DOMAIN response.json["next_subtask"] # {}

PlannerCalls == {"generate_initial_subtask", "generate_initial_subtask_v1",
                 "verify_and_replan", "verify_subtask_completion"}

\* C15 as stated: after a planner call (initial planning or verification),
\* failed or not, the control loop is at a decision point where the user can
\* act; the episode does not end there.
C15_BadResponseKeepsEpisode ==
    loop_op \in PlannerCalls => InLoop

(***************************************************************************)
(* Properties of InstructionDecomposer (checked under SpecDecomposer)      *)
(***************************************************************************)
\* the one-element list holding the original instruction under sub_id 1
IsFallback(result, instruction) ==
    /\ result.type = "list"
    /\ Len(result.val) = 1
    /\ result.val[1].type = "dict"
    /\ {"sub_id", "sub_instruction"} \subseteq DOMAIN result.val[1].val
    /\ result.val[1].val["sub_id"].type = "int"
    /\ result.val[1].val["sub_id"].val = "1"
    /\ result.val[1].val["sub_instruction"].type = "str"
    /\ result.val[1].val["sub_instruction"].val = instruction

\* the reply carries no non-empty 'sub_instructions': the request failed,
\* the text is not JSON, or the JSON has no such member or an empty one
NoSubInstructions(reply) ==
    \/ reply.transport # "ok"
    \/ ~JsonLoadsValue(reply.text).ok
    \/ JsonLoadsValue(reply.text).val.type # "dict"
    \/ "sub_instructions" \notin DOMAIN JsonLoadsValue(reply.text).val.val
    \/ ~PyBool(JsonLoadsValue(reply.text).val.val["sub_instructions"])

\* C16 as stated: decompose returns a non-empty list for every instruction
\* and every API outcome; when the configuration is unavailable, the request
\* fails, the reply is not valid JSON or has no non-empty 'sub_instructions',
\* the list is the single element with sub_id 1 and the original instruction.
C16_DecomposeTotal ==
    dec_op = "decompose" =>
        /\ dec_result.type = "list"
        /\ Len(dec_result.val) >= 1
        /\ (~api_available \/ NoSubInstructions(dec_reply)) =>
              IsFallback(dec_result, dec_instruction)

(***************************************************************************)
(* Properties of the gateway's fence removal (checked under SpecPlanner)   *)
(***************************************************************************)
JsonFenceOpen == <<FENCE, JSONW, WS>>

PlainFenceOpen == <<FENCE, WS>>

FenceClose == <<WS, FENCE>>

StartsWith(s, prefix) ==
    Len(s) >= Len(prefix) /\ SubSeq(s, 1, Len(prefix)) = prefix

EndsWith(s, suffix) ==
    Len(s) >= Len(suffix) /\ SubSeq(s, Len(s) - Len(suffix) + 1, Len(s)) = suffix

\* the text is  ```json \n T \n ```  or  ``` \n T \n ```
IsFenced(s) ==
    /\ StartsWith(s, JsonFenceOpen) \/ StartsWith(s, PlainFenceOpen)
    /\ EndsWith(s, FenceClose)
    /\ Len(s) >= Len(JsonFenceOpen) + Len(FenceClose)

\* the text T between the fences
Fenced(s) ==
    IF StartsWith(s, JsonFenceOpen)
    THEN SubSeq(s, Len(JsonFenceOpen) + 1, Len(s) - Len(FenceClose))
    ELSE SubSeq(s, Len(PlainFenceOpen) + 1, Len(s) - Len(FenceClose))

\* C17: a response that is a JSON object T between ```json or ``` fences
\* yields from _call_llm_api the record of T alone, and the repair pass is
\* not run.
C17_FenceStripping ==
    (/\ planner_op # "init"
     /\ api_response.transport = "ok"
     /\ IsFenced(api_response.text)
     /\ JsonLoads(Fenced(api_response.text)).ok) =>
        /\ api_result.ok
        /\ api_result.json = JsonLoads(Fenced(api_response.text)).val
        /\ ~api_result.repair_ran

\* C17 witness: the plan between plain ``` fences was parsed without repair
\* and became a sub-task
C17_Witness ==
    /\ planner_op = "generate_initial_subtask"
    /\ api_response.text = PlainFenceOpen \o FullPlan \o FenceClose
    /\ api_result.ok
    /\ ~api_result.repair_ran
    /\ api_result.json = JsonLoads(FullPlan).val
    /\ planner_result # NoneSubTask

(***************************************************************************)
(* Staleness of the cached actions (checked under SpecAgent)               *)
(***************************************************************************)
\* C18: when act returns, pending_action_list holds at most 2 actions; the
\* queue inside act (the action returned plus what is left) never holds more
\* than 3; and from one model inference up to the next, at least 1 and at
\* most 3 actions are returned to the simulator.
C18_BoundedStaleness ==
    /\ Len(pending_action_list) <= 2
    /\ agent_op = "inference" => Produced <= 3
    /\ inference_count > 0 => issued_since_inference \in 1..3
    /\ inference_count = 0 => issued_since_inference = 0

\* C18 witness: the third and last cached action of one inference was popped
C18_Witness ==
    /\ agent_op = "pending"
    /\ issued_since_inference = 3
    /\ pending_action_list = <<>>
    /\ inference_count = 1

(***************************************************************************)
(* Early stop of run_episode (checked under SpecEpisode)                   *)
(***************************************************************************)
\* how many of the last readings in seen equal the reading before them
RECURSIVE UnchangedRun(_)
UnchangedRun(seen) ==
    IF Len(seen) < 2 THEN 0
    ELSE IF seen[Len(seen)] # seen[Len(seen) - 1] THEN 0
    ELSE 1 + UnchangedRun(SubSeq(seen, 1, Len(seen) - 1))

\* C19: run_episode returns; it steps the simulator at most
\* early_stop_steps + 2 times; and the tick in which distance_to_goal has
\* been unchanged for more than early_stop_rotation ticks in a row issues
\* STOP, whatever act chose, which ends the episode.
C19_EarlyStop ==
    /\ [](ep_pc \in {"loop", "returned"} =>
             /\ iter_step <= EarlyStopSteps + 2
             /\ Len(dtg_seen) = iter_step
             /\ UnchangedRun(dtg_seen) > EarlyStopRotation
                   => ep_action = 0 /\ ep_over)
    /\ (ep_pc = "loop" ~> ep_pc = "returned")

\* C19 witness: act chose a move or a turn and the no-progress counter
\* replaced it by STOP before the step limit was reached
C19_Witness ==
    /\ ep_pc = "returned"
    /\ action # 0
    /\ ep_action = 0
    /\ UnchangedRun(dtg_seen) > EarlyStopRotation
    /\ iter_step <= EarlyStopSteps

\* the step limit alone forced STOP at step early_stop_steps + 2
C19_StepLimitReached ==
    /\ iter_step = EarlyStopSteps + 2
    /\ UnchangedRun(dtg_seen) <= EarlyStopRotation
    /\ action # 0
    /\ ep_action = 0

(***************************************************************************)
(* Magnitude handed to the decomposition (checked under SpecAgent)         *)
(***************************************************************************)
MovementVerbs == { T_move \o W_forward, T_turn \o W_left, T_turn \o W_right }

\* what may follow the integer: nothing, a full stop, a unit
MagnitudeSuffixes == { <<>>, <<".">>, T_cm, T_degrees }

\* the integers M for which output reads  verb M suffix
StatedMagnitudes(output) ==
    { ReSearchInt(n).value :
        n \in { t \in NumberTexts :
                  /\ t # <<>>
                  /\ \E v \in MovementVerbs, u \in MagnitudeSuffixes :
                        output = v \o t \o u } }

\* C20: when the model output is a movement verb followed by an integer M,
\* with or without a unit or punctuation after it, the number act divides by
\* the primitive unit is M.
C20_StatedMagnitude ==
    (agent_op = "inference" /\ StatedMagnitudes(navigation) # {}) =>
        /\ LastParse.action_index \in 1..3
        /\ StatedMagnitudes(navigation) = {LastParse.num}

\* the outputs that end in a full stop or a unit keep their magnitude
C20_SuffixedMagnitude ==
    (/\ agent_op = "inference"
     /\ StatedMagnitudes(navigation) # {}
     /\ ~IsDigit(navigation[Len(navigation)])) =>
        StatedMagnitudes(navigation) = {LastParse.num}

\* 'move forward 75' reaches the decomposition as 7
C20_LastDigitLost ==
    /\ agent_op = "inference"
    /\ navigation = T_move \o W_forward \o <<" ", "7", "5">>
    /\ StatedMagnitudes(navigation) = {75}
    /\ LastParse.num = 7

(***************************************************************************)
(* evaluate_agent's loop around run_episode (checked under SpecEpisode)    *)
(***************************************************************************)
\* run_episode is about to make, or has just made, its first act call
AtFirstAct == ep_pc = "loop" /\ iter_step = 0

AfterFirstAct == ep_pc \in {"loop", "returned"} /\ iter_step = 1

\* C21: at the first act call of every episode pending_action_list is empty
\* and the first action comes from a model inference, whatever the queue
\* held when the episode before it ended.
C21_FreshQueue ==
    /\ AtFirstAct => pending_action_list = <<>>
    /\ AfterFirstAct => agent_op = "inference"

\* C21 witness: the episode before ended by a forced STOP (act had chosen a
\* move or a turn) with actions still queued, and the next episode is at
\* its first act call
C21_Witness ==
    /\ AtFirstAct
    /\ episode_count = 1
    /\ leftover > 0
    /\ ep_action = 0
    /\ action # 0
    /\ pending_action_list = <<>>

\* C22: in every episode the simulator is reset exactly once before the
\* first step, and the observation and the metrics given to the first act
\* call belong to the same episode, the one that reset selected.
C22_OneResetPerEpisode ==
    /\ AtFirstAct => env_resets = 1
    /\ AfterFirstAct =>
          /\ env_resets = 1
          /\ first_obs_episode = first_info_episode

\* the first iteration reset the simulator again: the metrics are those of
\* the first episode, the observation that of the second
C22_SecondReset ==
    /\ AfterFirstAct
    /\ episode_count = 0
    /\ env_resets = 2
    /\ first_info_episode = 1
    /\ first_obs_episode = 2

(***************************************************************************)
(* Records of the executed actions, src/llm_manual_control.py (checked     *)
(* under SpecControl)                                                      *)
(***************************************************************************)
\* the step appended an entry for action_id, with the step counter it found,
\* to the 'actions' list of the current sub-task record and to no other
RecordedInCurrent(action_id) ==
    /\ current_subtask_file # NoFile
    /\ current_subtask_file \in DOMAIN subtask_files
    /\ DOMAIN subtask_files' = DOMAIN subtask_files
    /\ subtask_files'[current_subtask_file].actions =
          Append(subtask_files[current_subtask_file].actions,
                 [step |-> step_count, action_id |-> action_id])
    /\ \A f \in DOMAIN subtask_files \ {current_subtask_file} :
          subtask_files'[f] = subtask_files[f]

\* C23: every action the loop sends to the simulator, the STOP of the quit
\* command included, is appended once to the 'actions' list of the current
\* sub-task record, with 'step' equal to the step counter before the action.
C23_EveryActionRecorded ==
    [][(loop_pc = "loop" /\ env_actions' # env_actions) =>
          RecordedInCurrent(env_actions'[Len(env_actions')])]_vars

\* the actions chosen with "0".."3" are recorded
C23_ChosenActionsRecorded ==
    [][(loop_pc = "loop" /\ env_actions' # env_actions /\ loop_op' = "action") =>
          RecordedInCurrent(env_actions'[Len(env_actions')])]_vars

\* after a quit the simulator has executed one action more than the records
\* hold
C23_QuitNotRecorded ==
    /\ loop_op = "quit"
    /\ step_files = EmptyObj
    /\ env_actions = <<1, 0>>
    /\ \A f \in DOMAIN subtask_files :
          \A i \in 1..Len(subtask_files[f].actions) :
             subtask_files[f].actions[i].action_id # 0

(***************************************************************************)
(* Sub-task counter and record files of the root controller (checked under *)
(* SpecControl)                                                            *)
(***************************************************************************)
\* C25: after a successful initial planning call, subtask_count is 1 plus
\* the number of successful verify_and_replan calls: a successful call adds
\* one to it and writes a record under a name no earlier call used, a failed
\* call leaves the counter and the records as they were; so the records are
\* as many as the counter says.
C25_CountMatchesRecords ==
    /\ [](loop_pc = "loop" =>
             /\ subtask_count >= 1
             /\ Cardinality(DOMAIN subtask_files) = subtask_count
             /\ "initial_subtask" \in DOMAIN subtask_files)
    /\ [][(loop_pc = "loop" /\ loop_op' = "verify_and_replan") =>
             IF Falsy(verify_return'.response)
             THEN /\ subtask_count' = subtask_count
                  /\ subtask_files' = subtask_files
             ELSE /\ subtask_count' = subtask_count + 1
                  /\ current_subtask_file' \notin DOMAIN subtask_files
                  /\ DOMAIN subtask_files' =
                        DOMAIN subtask_files \cup {current_subtask_file'}
                  /\ \A f \in DOMAIN subtask_files :
                        subtask_files'[f] = subtask_files[f]]_vars

\* C25 witness: a successful call, then a failed one
C25_Witness ==
    /\ loop_pc = "loop"
    /\ loop_op = "verify_and_replan"
    /\ Falsy(verify_return.response)
    /\ subtask_count = 2
    /\ DOMAIN subtask_files = {"initial_subtask", "subtask_2"}

\* two successful calls wrote two records besides the initial one
C25_TwoReplans ==
    /\ loop_pc = "loop"
    /\ subtask_count = 3
    /\ DOMAIN subtask_files = {"initial_subtask", "subtask_2", "subtask_3"}

(***************************************************************************)
(* Step counters and STOP in the control loops (checked under SpecLoops)   *)
(***************************************************************************)
\* C24: in the manual loop, the LLM-assisted loops and run_episode, between
\* ticks and at the end of the episode the step counter equals the number
\* of env.step calls of the episode; an invalid input and a verification
\* request leave the counter unchanged.
C24_StepCountMatches ==
    /\ [](/\ step_count = Len(env_actions)
          /\ manual_step_count = Len(manual_env_actions)
          /\ ep_pc \in {"loop", "returned"} => iter_step = env_steps)
    /\ [][/\ loop_op' \in {"invalid", "verify_and_replan",
                           "verify_subtask_completion"}
                => step_count' = step_count
          /\ manual_op' = "invalid" => manual_step_count' = manual_step_count]_vars

\* C24 witness: a verification request after two simulator steps in the
\* LLM-assisted loop
C24_Witness ==
    /\ loop_pc = "loop"
    /\ loop_op = "verify_and_replan"
    /\ step_count = 2
    /\ Len(env_actions) = 2

\* an invalid input after the manual loop has stepped the simulator
C24_ManualInvalidAfterStep ==
    /\ manual_op = "invalid"
    /\ manual_step_count = 1
    /\ Len(manual_env_actions) = 1

\* run_episode has returned after several steps
C24_EpisodeReturned ==
    /\ ep_pc = "returned"
    /\ iter_step = 3
    /\ env_steps = 3

StopOnlyLast(actions) ==
    \A i \in 1..(Len(actions) - 1) : actions[i] # 0

StopSent(actions) == \E i \in 1..Len(actions) : actions[i] = 0

\* C26: in the manual loop and the LLM-assisted loops STOP is sent to the
\* simulator at most once in an episode; after it the episode has no further
\* simulator step and no further verification call; and the quit command
\* sends STOP once and leaves the loop.
C26_NothingAfterStop ==
    /\ [](StopOnlyLast(env_actions) /\ StopOnlyLast(manual_env_actions))
    /\ [][/\ StopSent(env_actions) =>
                UNCHANGED <<env_actions, llm_response, verify_return,
                            subtask_count>>
          /\ StopSent(manual_env_actions) =>
                manual_env_actions' \in {manual_env_actions, <<>>}
          /\ (loop_pc \in {"loop", "loop_v1"} /\ loop_op' = "quit") =>
                /\ env_actions' = Append(env_actions, 0)
                /\ loop_pc' = "done"
          /\ (manual_pc = "loop" /\ manual_op' = "quit") =>
                /\ manual_env_actions' = Append(manual_env_actions, 0)
                /\ manual_pc' = "result"]_vars

\* C26 witness: the manual loop was left by quit after a move, and the next
\* episode has not been selected
C26_Witness ==
    /\ manual_op = "result"
    /\ manual_pc = "select"
    /\ manual_env_actions = <<1, 0>>

\* quit after a turn in the loop of src/sub-vlm/llm_manual_control.py
C26_QuitInSubVlmLoop ==
    /\ loop_op = "quit"
    /\ loop_pc = "done"
    /\ env_actions = <<2, 0>>
    /\ step_files # EmptyObj

(***************************************************************************)
(* Resumable evaluation and the run index (checked under SpecEvaluate)     *)
(***************************************************************************)
NoDuplicates(file) ==
    \A i, j \in DOMAIN file : i # j => file[i] # file[j]

\* process p passes from the filter to the main loop in this step
Selects(p) == eval_pc[p] = "start" /\ eval_pc'[p] = "loop"

\* process p appends to evaluated.txt in this step
Appends(p) == eval_pc[p] = "loop" /\ eval_pc'[p] = "read_index"

\* C27: an id listed in evaluated.txt is never selected again; an invocation
\* selects at most 20 episodes; every id it appends to evaluated.txt is the
\* id of an episode it ran; evaluated.txt never holds an id twice.
C27_ResumableEvaluation ==
    /\ [](/\ NoDuplicates(evaluated_txt)
          /\ \A p \in Procs : Len(selected[p]) <= 20)
    /\ [][\A p \in Procs :
            /\ Selects(p) =>
                  Lines(selected'[p]) \cap Lines(evaluated_txt) = {}
            /\ Appends(p) =>
                  Lines(evaluated_txt') \ Lines(evaluated_txt) \subseteq ran[p]]_vars

\* the selection and the file by themselves: no id selected twice, at most
\* 20 per invocation, no id twice in evaluated.txt
C27_SelectionAndFile ==
    /\ [](/\ NoDuplicates(evaluated_txt)
          /\ \A p \in Procs : Len(selected[p]) <= 20)
    /\ [][\A p \in Procs :
            Selects(p) =>
               Lines(selected'[p]) \cap Lines(evaluated_txt) = {}]_vars

\* the first invocation of process 1 listed 20 ids as evaluated and stepped
\* only the episodes at the even places of its selection
C27_UnrunListed ==
    /\ eval_pc[1] = "read_index"
    /\ Len(evaluated_txt) = 20
    /\ 101 \in Lines(evaluated_txt)
    /\ 101 \notin ran[1]
    /\ Cardinality(ran[1]) = 10

\* the second invocation of a process selected the one episode left
C27_SecondInvocation ==
    /\ eval_pc[1] = "loop"
    /\ selected[1] = <<121>>
    /\ Len(run_indexes) = 1

\* C28: with one evaluate_agent process per split on a shared result path,
\* every completed run writes a run index to summary_index.txt that no other
\* run wrote, and the index in the file never decreases.
C28_UniqueRunIndex ==
    \A i, j \in DOMAIN run_indexes : i < j => run_indexes[i] < run_indexes[j]

\* two runs obtained the same index
C28_SameIndexTwice ==
    \E i, j \in DOMAIN run_indexes : i < j /\ run_indexes[i] = run_indexes[j]

\* a run wrote an index below the one the file held before
C28_IndexDecreased ==
    \E i, j \in DOMAIN run_indexes : i < j /\ run_indexes[i] > run_indexes[j]

(***************************************************************************)
(* The chat history (checked under SpecChat)                               *)
(***************************************************************************)
\* C29: after every completed generate_response call, and at every prompt
\* for user input, conversation_history holds at most
\* 2 * MAX_HISTORY_TURNS = 20 messages.
C29_HistoryBound == Len(conversation_history) <= 2 * MAX_HISTORY_TURNS

\* the bound the loop does keep: one message more
C29_HistoryBoundPlusOne ==
    Len(conversation_history) <= 2 * MAX_HISTORY_TURNS + 1

\* the eleventh reply was appended after the trimming
C29_TwentyOneMessages ==
    /\ chat_pc = "prompt"
    /\ chat_op = "generate"
    /\ Len(conversation_history) = 21

\* user, assistant, user, ...
Alternates(h) ==
    \A i \in DOMAIN h : h[i].role = IF i % 2 = 1 THEN "user" ELSE "assistant"

\* C30: the history given to the model starts with a user message and
\* alternates user, assistant; and what manage_history removes from the
\* history is whole turns, a user message with its reply, never half a turn.
C30_WholeTurns ==
    /\ [](Alternates(model_input) /\ Alternates(conversation_history))
    /\ [][chat_op' \in {"generate", "error"} =>
             (Len(conversation_history) + 1 - Len(model_input')) % 2 = 0]_vars

\* the history given to the model starts with an assistant message
C30_StartsWithAssistant ==
    /\ chat_op = "generate"
    /\ Len(model_input) = 20
    /\ model_input[1].role = "assistant"

\* the token estimate removed a turn
C30_TokenTrimmed ==
    /\ chat_op = "generate"
    /\ Len(model_input) = 1
    /\ Len(conversation_history) = 2
    /\ model_input[1].len = 1500

====
